---- MODULE Spec2Model ----
(***************************************************************************)
(* A model of the calendar assistant of ranro1/auto_sched: the Slot        *)
(* Manager and schedule_event of utils_emot.py, the validators, the        *)
(* Intent Extractor, the Event Matcher and the Request Orchestrator of     *)
(* utils.py.                                                               *)
(*                                                                         *)
(* Instants are integers: minutes since the midnight that starts day 0,    *)
(* in the user's timezone.  Day 0 is a Monday.                             *)
(***************************************************************************)
EXTENDS Integers, Sequences, FiniteSets, TLC

VARIABLES
    now,         \* datetime.now(user timezone), in minutes
    time_slots,  \* TimeSlotManager.time_slots: date -> list of TimeSlot
    store,       \* the CalendarStore: the list of events it holds
    op           \* the operation that ran last: its arguments and its result

vars == <<now, time_slots, store, op>>

\* Python's None for an optional instant or number.
None == 0 - 1

MinutesPerDay == 1440

\* ---------------------------------------------------------------- bounds
\* The instants the Slot Manager is driven with are Base + k*Step, k in 0..GridLen.
GridLen == 3
\* At most this many intervals are held by the Slot Manager in one session.
MaxSlots == 2

Step == 30 * 1
Base == 9 * 60

\* The dates the Slot Manager is driven with on its own, and the last of them.
SlotDates == {0, 1}
LastSlotDate == 0 + 1
Grid == {Base + k * Step : k \in 0..GridLen}
Durations == {Step, 2 * Step}
OptGrid == Grid \cup {None}

\* ------------------------------------------------- results of a call
\* A call either returns a value or raises.  An exception carries its class and
\* whether its message contains "invalid_grant" / "quota", which the handlers
\* of the CalendarStore errors test.
Ret(v) == [tag |-> "ret", val |-> v]
Raise(kind, grant, quota) == [tag |-> "exc", kind |-> kind, grant |-> grant, quota |-> quota]
InvalidInputError == Raise("InvalidInputError", FALSE, FALSE)
EventNotFoundError == Raise("EventNotFoundError", FALSE, FALSE)
\* A generic Exception whose message names neither a grant nor a quota.
GenericError == Raise("Exception", FALSE, FALSE)

\* The(S) is the element of the singleton S.  "The({Rest(name) : name \in
\* {value}})" reads "name = value" followed by the statements Rest that read
\* name: value is computed once.
The(S) == CHOOSE out \in S : TRUE

\* ------------------------------------------------------- text values
\* A text is the tuple of its characters.
Lower(c) == IF c = "D" THEN "d" ELSE IF c = "S" THEN "s" ELSE c

\* str.lower
lower(text) == [i \in 1..Len(text) |-> Lower(text[i])]

\* str.strip
RECURSIVE lstrip(_)
lstrip(text) ==
    IF text # <<>> /\ Head(text) = " " THEN lstrip(Tail(text)) ELSE text

RECURSIVE rstrip(_)
rstrip(text) ==
    IF text # <<>> /\ text[Len(text)] = " "
    THEN rstrip(SubSeq(text, 1, Len(text) - 1))
    ELSE text

strip(text) == rstrip(lstrip(text))

\* ------------------------------------------------------- time strings
\* A time string as the regular expressions of standardize_time_format read
\* it (after strip().upper()): hour digits, optional ':', optional two minute
\* digits (minute = None when there are none), optional whitespace, optional
\* period.  padded tells that the hour is written with two digits ('05', '17').
\* form "garbage" is a string no expression matches.
TimeStr(hour, minute, colon, space, period) ==
    [form |-> "clock", hour |-> hour, minute |-> minute, colon |-> colon,
     space |-> space, period |-> period, padded |-> hour >= 10]
GarbageTime == [form |-> "garbage", hour |-> 0, minute |-> None, colon |-> FALSE,
                space |-> FALSE, period |-> "", padded |-> FALSE]

\* f"{hour}:{minute:02d} {period}": the hour without its padding.
FormatTimeBare(hour, minute, period) == TimeStr(hour, minute, TRUE, TRUE, period)

\* f"{hour:02d}:{minute:02d} {period}"
FormatTime(hour, minute, period) ==
    [TimeStr(hour, minute, TRUE, TRUE, period) EXCEPT !.padded = TRUE]

\* re.match(r'^(\d{1,2}):?(\d{2})$', time_str)
Hour24Match(t) ==
    t.form = "clock" /\ t.minute # None /\ t.period = "" /\ ~t.space

\* re.match(r'^(\d{1,2})(?::(\d{2}))?\s*(AM|PM|A|P)?$', time_str)
Hour12Match(t) ==
    /\ t.form = "clock"
    /\ (t.minute = None => ~t.colon)
    /\ (t.minute # None => t.colon)
    /\ (t.space => t.period # "")

\* standardize_time_format
standardize_time_format(t) ==
    IF Hour24Match(t)
    THEN IF t.hour >= 24 \/ t.minute >= 60
         THEN InvalidInputError
         ELSE Ret(FormatTime(IF t.hour % 12 = 0 THEN 12 ELSE t.hour % 12,
                             t.minute,
                             IF t.hour < 12 THEN "AM" ELSE "PM"))
    ELSE IF Hour12Match(t)
    THEN LET minute == IF t.minute # None THEN t.minute ELSE 0
             period == IF t.period = "" THEN "PM"
                       ELSE IF t.period = "A" THEN "AM"
                       ELSE IF t.period = "P" THEN "PM"
                       ELSE t.period
         IN IF t.hour > 12 \/ minute >= 60
            THEN InvalidInputError
            ELSE Ret(FormatTime(IF t.hour = 0 THEN 12 ELSE t.hour, minute, period))
    ELSE InvalidInputError

\* ------------------------------------------------------- date strings
\* A date string: form "iso" is 'YYYY-MM-DD' of the real date d (a day number),
\* form "rel" a relative word worth d days ('today', 'tomorrow', ...), form
\* "garbage" a string no format matches.
DateStr(form, d) == [form |-> form, d |-> d]
GarbageDate == DateStr("garbage", 0)

\* today.date() for datetime.now() = t
DateOf(t) == t \div MinutesPerDay

\* datetime.weekday(): 0 = Monday
WeekdayOf(d) == d % 7

\* standardize_date_format
standardize_date_format(date_str, today) ==
    IF date_str.form = "rel" THEN Ret(DateStr("iso", today + date_str.d))
    ELSE IF date_str.form = "iso" THEN Ret(date_str)
    ELSE InvalidInputError

\* -------------------------------------------------------- day strings
\* str.upper on the day strings of the model.
Upper(day_str) ==
    IF day_str \in {"mon", "Mon"} THEN "MON"
    ELSE IF day_str = "tue" THEN "TUE"
    ELSE IF day_str = "monday" THEN "MONDAY"
    ELSE IF day_str = "th" THEN "TH"
    ELSE day_str

DayCodes == <<"MON", "TUE", "WED", "THU", "FRI", "SAT", "SUN">>

\* day_map of standardize_day_format; "" stands for day_map.get() returning None.
DayMapGet(key) ==
    IF key \in {"MONDAY", "MON", "M"} THEN "MON"
    ELSE IF key \in {"TUESDAY", "TUE", "T"} THEN "TUE"
    ELSE IF key \in {"WEDNESDAY", "WED", "W"} THEN "WED"
    ELSE IF key \in {"THURSDAY", "THU", "TH"} THEN "THU"
    ELSE IF key \in {"FRIDAY", "FRI", "F"} THEN "FRI"
    ELSE IF key \in {"SATURDAY", "SAT", "SA"} THEN "SAT"
    ELSE IF key \in {"SUNDAY", "SUN", "SU"} THEN "SUN"
    ELSE ""

\* standardize_day_format
standardize_day_format(day_str) ==
    IF DayMapGet(Upper(day_str)) = "" THEN InvalidInputError
    ELSE Ret(DayMapGet(Upper(day_str)))

\* day_map / day_mapping: {'MON': 0, ..., 'SUN': 6}; None for a missing key.
DayNumber(code) ==
    IF \E i \in 1..7 : DayCodes[i] = code
    THEN (CHOOSE i \in 1..7 : DayCodes[i] = code) - 1
    ELSE None

\* -------------------------------------------------------- descriptors
\* An event_details dict: keys is the set of keys it has, and each field holds
\* the value of its key (a fixed filler when the key is missing).
NoText == <<>>
NoTime == TimeStr(0, None, FALSE, FALSE, "")
NoDate == DateStr("none", 0)

Descriptor(keys, action, title, original_title, new_title, day, date, time, duration, travel_time, clarification) ==
    [keys |-> keys, action |-> action, title |-> title,
     original_title |-> original_title, new_title |-> new_title,
     day |-> day, date |-> date, time |-> time, duration |-> duration,
     travel_time |-> travel_time, clarification |-> clarification,
     description |-> NoText, location |-> NoText]

Has(d, key) == key \in d.keys

\* HasAnyOf with the "at least one of" test lost.
HasAnyOfDropped(d, names) == TRUE

\* any(key in validated for key in [...])
HasAnyOf(d, names) == d.keys \cap names # {}

DefaultDuration == 30

DefaultClarification == <<"?">>

\* The time / date / day clean-up every branch of validate_event_details
\* applies to the keys present; the first failure is the one raised.
CleanFields(d, today, names) ==
    LET t == standardize_time_format(d.time)
        dt == standardize_date_format(d.date, today)
        dy == standardize_day_format(d.day)
    IN IF "time" \in names /\ Has(d, "time") /\ t.tag = "exc" THEN t
       ELSE IF "date" \in names /\ Has(d, "date") /\ dt.tag = "exc" THEN dt
       ELSE IF "day" \in names /\ Has(d, "day") /\ dy.tag = "exc" THEN dy
       ELSE Ret([d EXCEPT
                !.time = IF "time" \in names /\ Has(d, "time") THEN t.val ELSE @,
                !.date = IF "date" \in names /\ Has(d, "date") THEN dt.val ELSE @,
                !.day = IF "day" \in names /\ Has(d, "day") THEN dy.val ELSE @])

\* The duration default of the CREATE branch.
CleanDuration(d) ==
    IF ~Has(d, "duration") \/ d.duration <= 0
    THEN [d EXCEPT !.keys = @ \cup {"duration"}, !.duration = DefaultDuration]
    ELSE d

\* validate_event_details
validate_event_details(d, today) ==
    IF ~Has(d, "action") THEN InvalidInputError
    ELSE IF d.action = "CREATE"
    THEN IF ~Has(d, "title") \/ strip(d.title) = <<>> THEN InvalidInputError
         ELSE IF ~HasAnyOf(d, {"time", "day", "date"}) THEN InvalidInputError
         ELSE LET c == CleanFields([d EXCEPT !.title = strip(@)], today,
                                   {"time", "date", "day"})
              IN IF c.tag = "exc" THEN c ELSE Ret(CleanDuration(c.val))
    ELSE IF d.action \in {"EDIT", "DELETE"}
    THEN IF ~Has(d, "original_title") \/ strip(d.original_title) = <<>>
         THEN InvalidInputError
         ELSE IF ~HasAnyOf(d, {"date", "day", "time"}) THEN InvalidInputError
         ELSE LET c == CleanFields(d, today, {"time", "date", "day"})
              IN IF c.tag = "exc" THEN c
                 ELSE IF d.action = "EDIT" /\ Has(d, "new_title")
                         /\ strip(d.new_title) = <<>>
                 THEN InvalidInputError
                 ELSE c
    ELSE IF d.action = "VIEW"
    THEN IF ~HasAnyOf(d, {"date", "day"}) THEN InvalidInputError
         ELSE CleanFields(d, today, {"date", "day"})
    ELSE IF d.action = "UNKNOWN"
    THEN IF Has(d, "clarification") THEN Ret(d)
         ELSE Ret([d EXCEPT !.keys = @ \cup {"clarification"},
                            !.clarification = DefaultClarification])
    ELSE InvalidInputError

\* ------------------------------------------------------------ TimeSlot
TimeSlot(start_time, end_time, event_id) ==
    [start_time |-> start_time, end_time |-> end_time, event_id |-> event_id]

\* An overlap test that looks at the start of the new interval only.
overlapsStart(self, other) ==
    self.start_time < other.end_time /\ self.start_time >= other.start_time

\* TimeSlot.overlaps
overlaps(self, other) ==
    self.start_time < other.end_time /\ self.end_time > other.start_time

\* sorted(slots, key=lambda x: x.start_time): a stable insertion sort.
RECURSIVE InsertByStart(_, _)
InsertByStart(slot, sorted) ==
    IF sorted = <<>> THEN <<slot>>
    ELSE IF slot.start_time < Head(sorted).start_time
         THEN <<slot>> \o sorted
         ELSE <<Head(sorted)>> \o InsertByStart(slot, Tail(sorted))

RECURSIVE SortByStart(_)
SortByStart(slots) ==
    IF slots = <<>> THEN <<>>
    ELSE InsertByStart(slots[Len(slots)], SortByStart(SubSeq(slots, 1, Len(slots) - 1)))

\* "for existing_slot in slots: if new_slot.overlaps(existing_slot)"
HasConflict(slot, slots) ==
    \E i \in 1..Len(slots) : overlaps(slot, slots[i])

\* The window test every return path but the last ones applies:
\* (not min_time or start >= min_time) and (not max_time or start + duration <= max_time)
MinOk(start, min_time) == min_time = None \/ start >= min_time
MaxOk(start, duration, max_time) == max_time = None \/ start + duration <= max_time

\* The tail of find_available_slot: min_time if it is in the future, else now.
FallbackSlot(current_time, min_time) ==
    IF min_time # None /\ min_time >= current_time THEN min_time ELSE current_time

\* The first gap between consecutive slots that passes the tests of the loop,
\* scanning from index i; None when the loop ends without a return.
RECURSIVE FirstGap(_, _, _, _, _, _)
FirstGap(slots, i, current_time, duration, min_time, max_time) ==
    IF i > Len(slots) - 1 THEN None
    ELSE LET gap_start == slots[i].end_time
             gap_end == slots[i + 1].start_time
         IN IF gap_start >= current_time
               /\ gap_end - gap_start >= duration
               /\ MinOk(gap_start, min_time)
               /\ MaxOk(gap_start, duration, max_time)
            THEN gap_start
            ELSE FirstGap(slots, i + 1, current_time, duration, min_time, max_time)

\* TimeSlotManager.find_available_slot, over the list stored for the date.
find_available_slot(stored, current_time, duration, preferred_start, min_time, max_time) ==
    LET existing_slots == SortByStart(stored)
        preferred_slot == TimeSlot(preferred_start, preferred_start + duration, None)
        gap == FirstGap(existing_slots, 1, current_time, duration, min_time, max_time)
        last_slot == existing_slots[Len(existing_slots)]
    IN IF existing_slots = <<>>
       THEN IF preferred_start # None
               /\ preferred_start >= current_time
               /\ MinOk(preferred_start, min_time)
               /\ MaxOk(preferred_start, duration, max_time)
            THEN preferred_start
            ELSE FallbackSlot(current_time, min_time)
       ELSE IF preferred_start # None
               /\ preferred_start >= current_time
               /\ MinOk(preferred_start, min_time)
               /\ MaxOk(preferred_start, duration, max_time)
               /\ ~HasConflict(preferred_slot, existing_slots)
            THEN preferred_start
            ELSE IF gap # None
                 THEN gap
                 ELSE IF last_slot.end_time >= current_time
                         /\ MaxOk(last_slot.end_time, duration, max_time)
                      THEN last_slot.end_time
                      ELSE FallbackSlot(current_time, min_time)

\* TimeSlotManager.add_time_slot: the list stored for the date after the call.
add_time_slot(stored, start_time, end_time, event_id) ==
    IF HasConflict(TimeSlot(start_time, end_time, event_id), stored)
    THEN stored
    ELSE Append(stored, TimeSlot(start_time, end_time, event_id))

\* self.time_slots is a dict: a date is a key only once a call has created it.
EmptyDict == [d \in {} |-> <<>>]

\* "if date not in self.time_slots: self.time_slots[date] = []", then the list.
SlotsOf(slots, date) == IF date \in DOMAIN slots THEN slots[date] ELSE <<>>

\* self.time_slots[date] = list
SetSlots(slots, date, list) ==
    [d \in DOMAIN slots \cup {date} |-> IF d = date THEN list ELSE slots[d]]

RECURSIVE SlotCountUpTo(_, _)
SlotCountUpTo(slots, d) ==
    IF d < 0 THEN 0 ELSE Len(SlotsOf(slots, d)) + SlotCountUpTo(slots, d - 1)

SlotCount(slots) == SlotCountUpTo(slots, LastSlotDate)

Idle == [name |-> "idle"]

\* ------------------------------------------- the Slot Manager on its own
InitSlot ==
    /\ now \in Grid
    /\ time_slots = EmptyDict
    /\ store = <<>>
    /\ op = Idle

\* A call of add_time_slot(date, start, end, id).
AddTimeSlot ==
    \E date \in SlotDates, s \in Grid, e \in Grid :
        /\ s < e
        /\ SlotCount(time_slots) < MaxSlots
        /\ time_slots' = SetSlots(time_slots, date,
               add_time_slot(SlotsOf(time_slots, date), s, e,
                             SlotCount(time_slots) + 1))
        /\ op' = [name |-> "add_time_slot", date |-> date,
                  start_time |-> s, end_time |-> e,
                  before |-> time_slots,
                  ret |-> ~HasConflict(TimeSlot(s, e, None), SlotsOf(time_slots, date))]
        /\ UNCHANGED <<now, store>>

\* A call of find_available_slot(date, duration, preferred_start, min_time, max_time).
FindAvailableSlot ==
    \E date \in SlotDates, duration \in Durations,
       preferred_start \in {None, Base, Base + Step, Base + 2 * Step},
       min_time \in {None, Base + Step},
       max_time \in {None, Base + 2 * Step} :
        /\ op' = [name |-> "find_available_slot", date |-> date,
                  duration |-> duration, preferred_start |-> preferred_start,
                  min_time |-> min_time, max_time |-> max_time,
                  current_time |-> now,
                  ret |-> find_available_slot(SlotsOf(time_slots, date), now, duration,
                                              preferred_start, min_time, max_time)]
        /\ time_slots' = SetSlots(time_slots, date, SlotsOf(time_slots, date))
        /\ UNCHANGED <<now, store>>

\* Time passes.
Tick ==
    /\ now + Step \in Grid
    /\ now' = now + Step
    /\ op' = Idle
    /\ UNCHANGED <<time_slots, store>>

NextSlot == AddTimeSlot \/ FindAvailableSlot \/ Tick

SpecSlot == InitSlot /\ [][NextSlot]_vars

\* C1: the start find_available_slot returns is never earlier than the current
\* time at the call, and [start, start + duration) overlaps no interval stored
\* for that date.
C1_SlotNotPastNoOverlap ==
    op.name = "find_available_slot" =>
        /\ op.ret >= op.current_time
        /\ ~HasConflict(TimeSlot(op.ret, op.ret + op.duration, None), SlotsOf(time_slots, op.date))

\* The half of C1 the code keeps: the returned start is never in the past.
C1_SlotNotPast ==
    op.name = "find_available_slot" => op.ret >= op.current_time

\* C2: with min_time and/or max_time given, the returned start satisfies
\* start >= min_time and start + duration <= max_time.
C2_SlotInsideWindow ==
    op.name = "find_available_slot" =>
        /\ MinOk(op.ret, op.min_time)
        /\ MaxOk(op.ret, op.duration, op.max_time)

\* --------------------------------------------------- add_time_slot alone
\* At most this many intervals are stored by a sequence of add_time_slot calls.
MaxStored == 2

InitAdd ==
    /\ now = Base
    /\ time_slots = EmptyDict
    /\ store = <<>>
    /\ op = Idle

\* A call of add_time_slot(date, start, end, id) with any two instants, the
\* end not after the start included.
AddAnyTimeSlot ==
    \E date \in SlotDates, s \in Grid, e \in Grid :
        /\ SlotCount(time_slots) < MaxStored
        /\ time_slots' = SetSlots(time_slots, date,
               add_time_slot(SlotsOf(time_slots, date), s, e,
                             SlotCount(time_slots) + 1))
        /\ op' = [name |-> "add_time_slot", date |-> date,
                  start_time |-> s, end_time |-> e,
                  before |-> time_slots,
                  ret |-> ~HasConflict(TimeSlot(s, e, None), SlotsOf(time_slots, date))]
        /\ UNCHANGED <<now, store>>

NextAdd == AddAnyTimeSlot

SpecAdd == InitAdd /\ [][NextAdd]_vars

\* The two intervals share a minute.
Intersect(a, b) ==
    (IF a.start_time > b.start_time THEN a.start_time ELSE b.start_time)
        < (IF a.end_time < b.end_time THEN a.end_time ELSE b.end_time)

\* C27: after any sequence of add_time_slot calls the intervals stored under
\* each date are pairwise non-overlapping (intervals that only touch do not
\* overlap); a call whose interval overlaps a stored one returns False and
\* leaves every stored list unchanged, and a call that returns True adds
\* exactly that one interval.
C27_StoredDisjoint ==
    /\ \A date \in DOMAIN time_slots :
           \A i, j \in 1..Len(time_slots[date]) :
               i # j => ~Intersect(time_slots[date][i], time_slots[date][j])
    /\ op.name = "add_time_slot" =>
           LET new_slot == TimeSlot(op.start_time, op.end_time, None)
               held == SlotsOf(op.before, op.date)
           IN /\ (\E i \in 1..Len(held) : Intersect(new_slot, held[i])) =>
                     (~op.ret /\ time_slots = op.before)
              /\ op.ret =>
                     /\ Len(time_slots[op.date]) = Len(held) + 1
                     /\ SubSeq(time_slots[op.date], 1, Len(held)) = held
                     /\ time_slots[op.date][Len(held) + 1].start_time = op.start_time
                     /\ time_slots[op.date][Len(held) + 1].end_time = op.end_time
                     /\ \A date \in DOMAIN op.before \ {op.date} :
                            date \in DOMAIN time_slots
                                /\ time_slots[date] = op.before[date]
                     /\ DOMAIN time_slots = DOMAIN op.before \cup {op.date}

\* A call was refused for an interval that overlaps the one stored, which
\* begins inside it.
C27_Witness ==
    /\ op.name = "add_time_slot"
    /\ ~op.ret
    /\ Len(SlotsOf(op.before, op.date)) = 1
    /\ op.start_time < op.before[op.date][1].start_time
    /\ op.end_time > op.before[op.date][1].start_time
    /\ op.end_time < op.before[op.date][1].end_time

\* ------------------------------------------------ validate_event_details
Dentist == <<"D", "e", "n", "t">>
dentist == <<"d", "e", "n", "t">>
Standup == <<"S", "t", "u", "p">>
Blank == <<" ">>
Padded == <<" ", "d", "e", "n", "t", " ">>

\* '5pm', '17:30', '25:00', '0 am', 'soon'
RawTimes == {TimeStr(5, None, FALSE, FALSE, "PM"), TimeStr(17, 30, TRUE, FALSE, ""),
             TimeStr(25, 0, TRUE, FALSE, ""), GarbageTime}
RawDates == {DateStr("iso", 2), DateStr("rel", 1), GarbageDate}
RawDays == {"mon", "TH", "someday"}

\* The dicts validate_event_details is driven with: every combination of keys,
\* present keys holding a value of the sets above.
ValidateInputs ==
    { Descriptor(keys, IF "action" \in keys THEN action ELSE "",
                 IF "title" \in keys THEN title ELSE NoText,
                 IF "original_title" \in keys THEN original ELSE NoText,
                 IF "new_title" \in keys THEN Blank ELSE NoText,
                 IF "day" \in keys THEN day ELSE "",
                 IF "date" \in keys THEN date ELSE NoDate,
                 IF "time" \in keys THEN time ELSE NoTime,
                 None, None, NoText) :
        keys \in SUBSET {"action", "title", "original_title", "new_title",
                         "day", "date", "time"},
        action \in {"CREATE", "EDIT", "DELETE", "VIEW", "UNKNOWN", "REMIND"},
        title \in {Blank, Padded},
        original \in {Blank, Dentist},
        day \in {"mon", "someday"},
        date \in {DateStr("rel", 1), GarbageDate},
        time \in {TimeStr(5, None, FALSE, FALSE, "PM"), TimeStr(25, 0, TRUE, FALSE, "")} }

\* A call about to be made, with its argument.
Call(arg) == [name |-> "call", arg |-> arg]

InitValidate ==
    /\ now \in {Base, MinutesPerDay + Base}
    /\ time_slots = EmptyDict
    /\ store = <<>>
    /\ op \in {Call(d) : d \in ValidateInputs}

\* The call validate_event_details(event_details).
Validate ==
    /\ op.name = "call"
    /\ op' = [name |-> "validate_event_details", arg |-> op.arg,
              ret |-> validate_event_details(op.arg, DateOf(now))]
    /\ UNCHANGED <<now, time_slots, store>>

NextValidate == Validate

SpecValidate == InitValidate /\ [][NextValidate]_vars

\* The required-field rule of the four calendar actions.
RequiredFields(d) ==
    /\ "action" \in d.keys
    /\ d.action \in {"CREATE", "EDIT", "DELETE", "VIEW"}
    /\ d.action = "CREATE" =>
           "title" \in d.keys /\ strip(d.title) # <<>> /\ d.keys \cap {"time", "day", "date"} # {}
    /\ d.action \in {"EDIT", "DELETE"} =>
           /\ "original_title" \in d.keys /\ strip(d.original_title) # <<>>
           /\ d.keys \cap {"date", "day", "time"} # {}
    /\ d.action = "VIEW" => d.keys \cap {"date", "day"} # {}

C21_DayMatchesDate ==
    (/\ op.name = "validate_event_details"
     /\ op.ret.tag = "ret"
     /\ op.ret.val.action \in {"CREATE", "EDIT", "DELETE", "VIEW"}
     /\ {"day", "date"} \subseteq op.ret.val.keys) =>
        WeekdayOf(op.ret.val.date.d) = DayNumber(op.ret.val.day)
\* ------------------------------------------------ parse_natural_language
\* What model.generate_content gives parse_natural_language: form "raises" is
\* a failed call, "noarray" a text without '[' or ']', "badjson" a text
\* json.loads rejects, "array" a JSON array of the elements items.  An element
\* is a JSON object (kind "object", the dict d) or another JSON value.
Response(form, items) == [form |-> form, items |-> items]
Object(d) == [kind |-> "object", d |-> d]
NonObject == [kind |-> "string", d |-> Descriptor({}, "", NoText, NoText, NoText, "",
                                                   NoDate, NoTime, None, None, NoText)]

\* The list parse_natural_language returns from its outer except clause.
UnknownActions ==
    << Descriptor({"action", "clarification"}, "UNKNOWN", NoText, NoText, NoText, "",
                  NoDate, NoTime, None, None, <<"u">>) >>

\* One turn of the loop "for action in actions": "abort" when the body raises
\* anything but InvalidInputError (the loop is left for the outer except),
\* "skip" for a continue, "append" for validated_actions.append.
ActionStep(a, today) ==
    LET d == a.d
        v == validate_event_details(d, today)
    IN IF a.kind # "object" THEN [do |-> "abort", val |-> d]
       ELSE IF ~Has(d, "action") THEN [do |-> "abort", val |-> d]
       ELSE IF d.action = "VIEW" /\ ~HasAnyOf(d, {"date", "day"})
       THEN [do |-> "skip", val |-> d]
       ELSE IF d.action = "CREATE" /\ ~({"title", "time"} \subseteq d.keys)
       THEN [do |-> "skip", val |-> d]
       ELSE IF d.action \in {"EDIT", "DELETE"} /\ ~Has(d, "original_title")
       THEN [do |-> "skip", val |-> d]
       ELSE IF v.tag = "ret" THEN [do |-> "append", val |-> v.val]
       ELSE IF v.kind = "InvalidInputError" THEN [do |-> "skip", val |-> d]
       ELSE [do |-> "abort", val |-> d]

\* The loop over actions[i..]: the validated list, or "abort".
RECURSIVE ValidateActions(_, _, _, _)
ValidateActions(items, i, validated_actions, today) ==
    IF i > Len(items) THEN [do |-> "return", val |-> validated_actions]
    ELSE The({IF step.do = "abort" THEN [do |-> "abort", val |-> <<>>]
              ELSE ValidateActions(items, i + 1,
                       IF step.do = "append" THEN Append(validated_actions, step.val)
                       ELSE validated_actions,
                       today) :
              step \in {ActionStep(items[i], today)}})

\* parse_natural_language (utils.py): the list it returns.
parse_natural_language(response, today) ==
    IF response.form # "array" THEN UnknownActions
    ELSE The({IF loop.do = "abort" THEN UnknownActions ELSE loop.val :
              loop \in {ValidateActions(response.items, 1, <<>>, today)}})

\* The longest JSON array the Interpreter answers with.
MaxActions == 2

CreateD(keys, title, day, time) ==
    Descriptor(keys, IF "action" \in keys THEN "CREATE" ELSE "", title, NoText, NoText,
               day, NoDate, time, None, None, NoText)
TargetD(keys, action, original_title, day, time) ==
    Descriptor(keys, IF "action" \in keys THEN action ELSE "", NoText, original_title,
               NoText, day, NoDate, time, None, None, NoText)

FivePm == TimeStr(5, None, FALSE, FALSE, "PM")
SixPm == FormatTime(6, 0, "PM")

ParseElements ==
    { NonObject,
      Object(CreateD({"title"}, Dentist, "", NoTime)),
      Object(CreateD({"action", "title", "time"}, Dentist, "", FivePm)),
      Object(CreateD({"action", "title", "time"}, Dentist, "", GarbageTime)),
      Object(CreateD({"action", "title", "day"}, Dentist, "mon", NoTime)),
      Object(CreateD({"action", "title"}, Dentist, "", NoTime)),
      Object(TargetD({"action", "day"}, "VIEW", NoText, "TH", NoTime)),
      Object(TargetD({"action"}, "VIEW", NoText, "", NoTime)),
      Object(TargetD({"action", "original_title", "day"}, "DELETE", Dentist, "someday", NoTime)),
      Object(TargetD({"action", "original_title"}, "DELETE", Dentist, "", NoTime)),
      Object(TargetD({"action", "original_title", "time"}, "EDIT", Dentist, "", SixPm)),
      Object(TargetD({"action"}, "UNKNOWN", NoText, "", NoTime)) }

ArraysUpTo(n) == UNION {[1..k -> ParseElements] : k \in 0..n}

ParseInputs ==
    {Response(form, <<>>) : form \in {"raises", "noarray", "badjson"}}
        \cup {Response("array", items) : items \in ArraysUpTo(MaxActions)}

InitParse ==
    /\ now = Base
    /\ time_slots = EmptyDict
    /\ store = <<>>
    /\ op \in {Call(r) : r \in ParseInputs}

\* The call parse_natural_language(prompt, model), the Interpreter answering op.arg.
Parse ==
    /\ op.name = "call"
    /\ op' = [name |-> "parse_natural_language", arg |-> op.arg,
              ret |-> parse_natural_language(op.arg, DateOf(now))]
    /\ UNCHANGED <<now, time_slots, store>>

NextParse == Parse

SpecParse == InitParse /\ [][NextParse]_vars

IsSingleUnknown(list) ==
    Len(list) = 1 /\ list[1].action = "UNKNOWN" /\ Has(list[1], "clarification")

\* An extracted action that lacks a field required for its stated action kind.
LacksRequiredField(a) ==
    /\ a.kind = "object"
    /\ Has(a.d, "action")
    /\ a.d.action \in {"CREATE", "EDIT", "DELETE", "VIEW"}
    /\ ~RequiredFields(a.d)

\* C5: parse_natural_language never returns an empty list, and when the
\* Interpreter output holds no parsable JSON or an extracted action lacks a
\* required field the result is a single UNKNOWN descriptor with a clarification.
C5_UnknownOnFailure ==
    op.name = "parse_natural_language" =>
        /\ op.ret # <<>>
        /\ (op.arg.form # "array"
              \/ \E i \in 1..Len(op.arg.items) : LacksRequiredField(op.arg.items[i]))
               => IsSingleUnknown(op.ret)

\* An action the extractor accepts when it is the only element of the array.
ValidAlone(a, today) ==
    /\ a.kind = "object"
    /\ validate_event_details(a.d, today).tag = "ret"
    /\ parse_natural_language(Response("array", <<a>>), today)
           = <<validate_event_details(a.d, today).val>>

\* C6: every action of the array that is valid on its own appears, validated,
\* in the returned list, whatever the other elements are.
C6_IndependentActions ==
    op.name = "parse_natural_language" /\ op.arg.form = "array" =>
        \A i \in 1..Len(op.arg.items) :
            ValidAlone(op.arg.items[i], DateOf(now)) =>
                \E j \in 1..Len(op.ret) :
                    op.ret[j] = validate_event_details(op.arg.items[i].d, DateOf(now)).val

\* ----------------------------------------------------- title similarity
\* The length of the common prefix of a[i..] and b[j..].
RECURSIVE CommonLen(_, _, _, _)
CommonLen(a, b, i, j) ==
    IF i > Len(a) \/ j > Len(b) \/ a[i] # b[j] THEN 0
    ELSE 1 + CommonLen(a, b, i + 1, j + 1)

\* SequenceMatcher.find_longest_match: the longest common block, the one that
\* starts earliest in a and then earliest in b among the longest.
LongestMatch(a, b) ==
    LET blocks == {<<i, j>> : i \in 1..Len(a), j \in 1..Len(b)}
        Better(x, y) ==
            \/ CommonLen(a, b, x[1], x[2]) > CommonLen(a, b, y[1], y[2])
            \/ /\ CommonLen(a, b, x[1], x[2]) = CommonLen(a, b, y[1], y[2])
               /\ (x[1] < y[1] \/ (x[1] = y[1] /\ x[2] <= y[2]))
        best == CHOOSE x \in blocks : \A y \in blocks : Better(x, y)
    IN <<best[1], best[2], CommonLen(a, b, best[1], best[2])>>

\* SequenceMatcher.get_matching_blocks: the number of matched characters.
RECURSIVE Matches(_, _)
Matches(a, b) ==
    IF a = <<>> \/ b = <<>> THEN 0
    ELSE LET m == LongestMatch(a, b)
         IN IF m[3] = 0 THEN 0
            ELSE m[3]
                 + Matches(SubSeq(a, 1, m[1] - 1), SubSeq(b, 1, m[2] - 1))
                 + Matches(SubSeq(a, m[1] + m[3], Len(a)), SubSeq(b, m[2] + m[3], Len(b)))

\* A score is the fraction num / den, den > 0.
Rat(num, den) == [num |-> num, den |-> den]
RatAdd(x, y) == Rat(x.num * y.den + y.num * x.den, x.den * y.den)
RatLess(x, y) == x.num * y.den < y.num * x.den

\* calculate_title_similarity: SequenceMatcher(...).ratio() = 2.0 * M / T,
\* and 1.0 when both titles are empty.
calculate_title_similarity(title1, title2) ==
    IF Len(title1) + Len(title2) = 0 THEN Rat(1, 1)
    ELSE Rat(2 * Matches(lower(title1), lower(title2)), Len(title1) + Len(title2))

\* similarity_threshold = 0.6
SimilarityThreshold == Rat(6, 10)

\* ------------------------------------------------- CalendarStore events
\* The offset of the user's timezone ('America/New_York', daylight time) from
\* UTC, in minutes.
UserUtcOffset == 0 - 240

\* The offset of a named timezone from UTC.
UtcOffset(timezone_str) == IF timezone_str = "UTC" THEN 0 ELSE UserUtcOffset

\* A start / end entry of an event as the CalendarStore returns it: key
\* 'dateTime' with the clock reading wall and the UTC offset off written in the
\* string (suffix Z is offset 0), or key 'date' with wall the midnight of the
\* day; timeZone is "" when the entry has no 'timeZone' key.
Stamp(key, wall, off, timeZone) ==
    [key |-> key, wall |-> wall, off |-> off, timeZone |-> timeZone]

\* The instant a stamp denotes, as the clock reading in the user's timezone.
\* An all-day date is the user's midnight of that day.
LocalInstant(stamp) ==
    IF stamp.key = "date" THEN stamp.wall
    ELSE stamp.wall - stamp.off + UserUtcOffset

\* parse_datetime_from_api: the clock reading of the datetime it returns.
\* dt.replace(tzinfo=UTC) keeps the reading and drops the offset of the string;
\* astimezone then moves the reading by the offset of the named zone.
parse_datetime_from_api(stamp, timezone_str) ==
    IF timezone_str # "" THEN stamp.wall + UtcOffset(timezone_str)
    ELSE stamp.wall

UserTimezone == "America/New_York"

\* event['start'].get('timeZone', user_timezone)
TimeZoneOf(stamp) == IF stamp.timeZone = "" THEN UserTimezone ELSE stamp.timeZone

\* An event of the CalendarStore; summary_key tells whether it has a 'summary'.
\* description and location are the empty text when the event has no such key.
Event(id, summary_key, summary, start, end) ==
    [id |-> id, summary_key |-> summary_key, summary |-> summary,
     start |-> start, end |-> end, description |-> <<>>, location |-> <<>>]

\* date.weekday() and the minutes after midnight of a clock reading.
TimeOfDay(t) == t % MinutesPerDay

\* -------------------------------------------------- find_matching_events
\* datetime.strptime(event_details['time'], fmt) for the formats '%I:%M %p',
\* '%I %p' and '%H:%M', tried in that order: the minutes after midnight of the
\* first that parses, None when none does.
MatcherClock(t) ==
    IF t.form # "clock" THEN None
    ELSE IF t.space /\ t.period \in {"AM", "PM"} /\ t.hour \in 1..12
            /\ ((t.colon /\ t.minute # None /\ t.minute <= 59)
                \/ (~t.colon /\ t.minute = None))
    THEN ((t.hour % 12) + IF t.period = "PM" THEN 12 ELSE 0) * 60
         + IF t.minute = None THEN 0 ELSE t.minute
    ELSE IF t.colon /\ t.minute # None /\ ~t.space /\ t.period = ""
            /\ t.hour <= 23 /\ t.minute <= 59
    THEN t.hour * 60 + t.minute
    ELSE None

Abs(x) == IF x < 0 THEN 0 - x ELSE x

\* The time window of the matcher, in minutes.
TimeWindow == 15

\* The verdict of the loop body of find_matching_events on one event:
\* "skip" (continue), "raise" (the date of the descriptor does not parse) or
\* "match" with the candidate appended.
MatchEvent(event, event_details) ==
    LET similarity == calculate_title_similarity(event_details.original_title, event.summary)
        event_start == parse_datetime_from_api(event.start, TimeZoneOf(event.start))
        event_end == parse_datetime_from_api(event.end, TimeZoneOf(event.end))
        parsed_time == MatcherClock(event_details.time)
        time_difference == Abs(TimeOfDay(event_start) - parsed_time)
        title_score == IF Has(event_details, "original_title") THEN similarity ELSE Rat(0, 1)
        date_score == IF Has(event_details, "date") THEN Rat(1, 1) ELSE Rat(0, 1)
        day_score == IF Has(event_details, "day") THEN Rat(8, 10) ELSE Rat(0, 1)
        time_score == IF Has(event_details, "time") /\ parsed_time # None
                      THEN Rat(60 - time_difference, 60) ELSE Rat(0, 1)
    IN IF ~event.summary_key THEN [verdict |-> "skip"]
       ELSE IF Has(event_details, "original_title") /\ RatLess(similarity, SimilarityThreshold)
       THEN [verdict |-> "skip"]
       ELSE IF Has(event_details, "date") /\ event_details.date.form # "iso"
       THEN [verdict |-> "raise"]
       ELSE IF Has(event_details, "date") /\ DateOf(event_start) # event_details.date.d
       THEN [verdict |-> "skip"]
       ELSE IF Has(event_details, "day")
               /\ WeekdayOf(DateOf(event_start)) # DayNumber(event_details.day)
       THEN [verdict |-> "skip"]
       ELSE IF Has(event_details, "time") /\ parsed_time # None
               /\ time_difference > TimeWindow
       THEN [verdict |-> "skip"]
       ELSE [verdict |-> "match",
             candidate |-> [id |-> event.id, title |-> event.summary,
                            start |-> event_start, end |-> event_end,
                            duration |-> event_end - event_start,
                            match_score |-> RatAdd(RatAdd(title_score, date_score),
                                                   RatAdd(day_score, time_score)),
                            all_day |-> event.start.key = "date" /\ event.end.key = "date"]]

\* A sort that puts a candidate before the ones of equal score.
RECURSIVE InsertByScoreFirst(_, _)
InsertByScoreFirst(candidate, sorted) ==
    IF sorted = <<>> THEN <<candidate>>
    ELSE IF ~RatLess(candidate.match_score, Head(sorted).match_score)
         THEN <<candidate>> \o sorted
         ELSE <<Head(sorted)>> \o InsertByScoreFirst(candidate, Tail(sorted))

\* matching_events.sort(key=match_score, reverse=True): a stable sort, so a
\* candidate goes behind every one whose score is not lower.
RECURSIVE InsertByScore(_, _)
InsertByScore(candidate, sorted) ==
    IF sorted = <<>> THEN <<candidate>>
    ELSE IF RatLess(Head(sorted).match_score, candidate.match_score)
         THEN <<candidate>> \o sorted
         ELSE <<Head(sorted)>> \o InsertByScore(candidate, Tail(sorted))

RECURSIVE SortByScore(_)
SortByScore(candidates) ==
    IF candidates = <<>> THEN <<>>
    ELSE InsertByScore(candidates[Len(candidates)],
                       SortByScore(SubSeq(candidates, 1, Len(candidates) - 1)))

\* The loop of find_matching_events from event i on, with the candidates
\* appended so far; Raise when an iteration raised.
RECURSIVE MatchFrom(_, _, _, _)
MatchFrom(i, events, event_details, matching_events) ==
    IF i > Len(events) THEN Ret(matching_events)
    ELSE The({IF m.verdict = "raise" THEN GenericError
              ELSE MatchFrom(i + 1, events, event_details,
                             IF m.verdict = "match"
                             THEN Append(matching_events, m.candidate)
                             ELSE matching_events) :
              m \in {MatchEvent(events[i], event_details)}})

\* The error handler of find_matching_events: a generic Exception whose
\* message is a fixed sentence for an authentication or a quota failure (the
\* second contains the word "quota") and quotes the original message otherwise.
MatcherError(e) ==
    IF e.grant THEN Raise("Exception", FALSE, FALSE)
    ELSE IF e.quota THEN Raise("Exception", FALSE, TRUE)
    ELSE Raise("Exception", e.grant, e.quota)

\* find_matching_events of utils.py.  list_error is the exception the
\* CalendarStore raises on the list call, or Ret(0) when it answers.
find_matching_events(events, event_details, list_error) ==
    IF list_error.tag = "exc" THEN MatcherError(list_error)
    ELSE The({IF r.tag = "exc" THEN MatcherError(r) ELSE Ret(SortByScore(r.val)) :
              r \in {MatchFrom(1, events, event_details, <<>>)}})

\* ------------------------------------------------- the Event Matcher alone
\* The CalendarStore holds at most this many events.
MaxEvents == 2

Dense == <<"D", "e", "n", "s">>

\* An hour-long event that starts at the user's clock reading t, returned with
\* the user's offset, in UTC, or with suffix Z and no 'timeZone' key.
OffsetEvent(summary_key, summary, t) ==
    Event(0, summary_key, summary,
          Stamp("dateTime", t, UserUtcOffset, UserTimezone),
          Stamp("dateTime", t + 60, UserUtcOffset, UserTimezone))
UtcEvent(summary_key, summary, t) ==
    Event(0, summary_key, summary,
          Stamp("dateTime", t - UserUtcOffset, 0, "UTC"),
          Stamp("dateTime", t - UserUtcOffset + 60, 0, "UTC"))
ZuluEvent(summary_key, summary, t) ==
    Event(0, summary_key, summary,
          Stamp("dateTime", t - UserUtcOffset, 0, ""),
          Stamp("dateTime", t - UserUtcOffset + 60, 0, ""))
\* An all-day event of day d.
AllDayEvent(summary_key, summary, d) ==
    Event(0, summary_key, summary,
          Stamp("date", d * MinutesPerDay, 0, ""),
          Stamp("date", (d + 1) * MinutesPerDay, 0, ""))

\* Tuesday 18:00 and Tuesday 14:00 on the user's clock.
TuesdaySix == MinutesPerDay + 18 * 60
TuesdayTwo == MinutesPerDay + 14 * 60

EventPool ==
    {OffsetEvent(TRUE, Dentist, TuesdaySix), OffsetEvent(TRUE, Dense, TuesdayTwo),
     OffsetEvent(TRUE, Standup, TuesdaySix), OffsetEvent(FALSE, NoText, TuesdaySix),
     UtcEvent(TRUE, Dentist, TuesdaySix), ZuluEvent(TRUE, Dentist, TuesdayTwo),
     AllDayEvent(TRUE, Dentist, 1), OffsetEvent(TRUE, Dentist, TuesdaySix + 10),
     OffsetEvent(TRUE, dentist, TuesdaySix)}

\* The CalendarStore numbers its events.
Numbered(events) == [i \in 1..Len(events) |-> [events[i] EXCEPT !.id = i]]

Stores ==
    {Numbered(events) : events \in UNION {[1..n -> EventPool] : n \in 0..MaxEvents}}

TwoPm == FormatTime(2, 0, "PM")
\* '6PM': strptime needs whitespace before the period.
SixPmTight == TimeStr(6, None, FALSE, FALSE, "PM")

\* The descriptors the matcher is driven with: the keys it tests.
MatchInputs ==
    {Descriptor({"action"} \cup keys, "DELETE", NoText,
                IF "original_title" \in keys THEN dentist ELSE NoText, NoText,
                IF "day" \in keys THEN day ELSE "",
                IF "date" \in keys THEN date ELSE NoDate,
                IF "time" \in keys THEN time ELSE NoTime,
                0, 0, NoText) :
        keys \in SUBSET {"original_title", "day", "date", "time"},
        day \in {"TUE", "MON"},
        date \in {DateStr("iso", 1), DateStr("iso", 0), GarbageDate},
        time \in {SixPm, TwoPm, SixPmTight}}

\* The failures of a CalendarStore call: an expired grant, a spent quota,
\* anything else.
StoreErrors ==
    {Raise("HttpError", TRUE, FALSE), Raise("HttpError", FALSE, TRUE),
     Raise("HttpError", FALSE, FALSE)}

InitMatch ==
    /\ now = Base
    /\ time_slots = EmptyDict
    /\ store \in Stores
    /\ op \in {[name |-> "call", arg |-> d, list_error |-> e] :
                  d \in MatchInputs, e \in {Ret(0)} \cup StoreErrors}

\* A call of find_matching_events(calendar_service, event_details).
FindMatchingEvents ==
    /\ op.name = "call"
    /\ op' = [name |-> "find_matching_events", arg |-> op.arg,
              list_error |-> op.list_error,
              ret |-> find_matching_events(store, op.arg, op.list_error)]
    /\ UNCHANGED <<now, time_slots, store>>

NextMatch == FindMatchingEvents

SpecMatch == InitMatch /\ [][NextMatch]_vars

\* The filters of a descriptor, applied to the instant the event starts at on
\* the user's clock.
PassesFilters(event, d) ==
    LET start == LocalInstant(event.start)
    IN /\ ("original_title" \in d.keys =>
              ~RatLess(calculate_title_similarity(d.original_title, event.summary),
                       SimilarityThreshold))
       /\ ("date" \in d.keys => DateOf(start) = d.date.d)
       /\ ("day" \in d.keys => WeekdayOf(DateOf(start)) = DayNumber(d.day))
       /\ ("time" \in d.keys /\ MatcherClock(d.time) # None =>
              Abs(TimeOfDay(start) - MatcherClock(d.time)) <= 15)

\* C10: every candidate find_matching_events returns passes every filter the
\* descriptor has: its start date is descriptor.date, its weekday is
\* descriptor.day, its similarity reaches the threshold and its start
\* time-of-day is within 15 minutes of descriptor.time.
C10_OnlyPassingCandidates ==
    (op.name = "find_matching_events" /\ op.ret.tag = "ret") =>
        \A i \in 1..Len(op.ret.val) :
            PassesFilters(store[op.ret.val[i].id], op.arg)

\* The event has the descriptor's original_title as its title and starts, on
\* the user's clock, at the descriptor's date and time.
IsExactMatch(event, d) ==
    /\ event.summary_key
    /\ event.summary = d.original_title
    /\ event.start.key = "dateTime"
    /\ LocalInstant(event.start) = d.date.d * MinutesPerDay + MatcherClock(d.time)

\* C11: when exactly one event of the list has the descriptor's
\* original_title as title and starts at the descriptor's date and time,
\* find_matching_events returns that event first, and no returned candidate
\* has a higher match_score.
C11_ExactMatchFirst ==
    (/\ op.name = "find_matching_events"
     /\ op.list_error.tag = "ret"
     /\ {"original_title", "date", "time"} \subseteq op.arg.keys
     /\ "day" \notin op.arg.keys
     /\ op.arg.date.form = "iso"
     /\ MatcherClock(op.arg.time) # None) =>
        \A i \in 1..Len(store) :
            (/\ IsExactMatch(store[i], op.arg)
             /\ \A k \in 1..Len(store) : IsExactMatch(store[k], op.arg) => k = i) =>
                /\ op.ret.tag = "ret"
                /\ op.ret.val # <<>>
                /\ op.ret.val[1].id = store[i].id
                /\ \A j \in 1..Len(op.ret.val) :
                       ~RatLess(op.ret.val[1].match_score, op.ret.val[j].match_score)

\* C23: for every event the CalendarStore returns to find_matching_events,
\* parse_datetime_from_api of its start, called as the matcher calls it, is
\* the clock reading in the user's timezone of the instant the event starts at.
C23_ParsedInUserTimezone ==
    (op.name = "find_matching_events" /\ op.ret.tag = "ret") =>
        \A i \in 1..Len(store) :
            parse_datetime_from_api(store[i].start, TimeZoneOf(store[i].start))
                = LocalInstant(store[i].start)

SameScore(x, y) ==
    ~RatLess(x.match_score, y.match_score) /\ ~RatLess(y.match_score, x.match_score)

\* C26: the list find_matching_events returns is sorted by match_score in
\* non-increasing order, and candidates of equal score keep the relative order
\* in which the CalendarStore returned them (the store numbers its events in
\* that order).
C26_SortedStable ==
    (op.name = "find_matching_events" /\ op.ret.tag = "ret") =>
        \A i, j \in 1..Len(op.ret.val) :
            i < j =>
                /\ ~RatLess(op.ret.val[i].match_score, op.ret.val[j].match_score)
                /\ (SameScore(op.ret.val[i], op.ret.val[j]) =>
                       op.ret.val[i].id < op.ret.val[j].id)

\* Two candidates of equal score came back.
C26_Witness ==
    /\ op.name = "find_matching_events"
    /\ op.ret.tag = "ret"
    /\ Len(op.ret.val) = MaxEvents
    /\ SameScore(op.ret.val[1], op.ret.val[2])

\* ------------------------------------------------- CalendarStore calls
\* What an executor works on: the events the CalendarStore holds and the calls
\* made to it so far.  fail names the call that raises: the call numbered
\* fail.at raises fail.error (no call does when fail.at = 0).
Ctx(events, calls) == [events |-> events, calls |-> calls]
NoFailure == [at |-> 0, error |-> Ret(0)]
Fails(ctx, fail) == fail.at = Len(ctx.calls) + 1

\* The context after events().<call>(...).execute() was issued.
Called(ctx, call, id) == [ctx EXCEPT !.calls = Append(@, [call |-> call, id |-> id])]

\* The outcome of an executor: what it returns or raises, and the context.
Done(result, ctx) == [result |-> result, ctx |-> ctx]

\* The values the executors return: a (success, message) pair, the 4-tuple
\* (None, None, link, message), or None.
Pair(success, message) == [shape |-> "pair", success |-> success, message |-> message]
Four(link, message) ==
    [shape |-> "four", start_time |-> None, end_time |-> None, link |-> link,
     message |-> message]
NoneValue == [shape |-> "none"]

\* ------------------------------------------------- schedule_event (CREATE)
\* The descriptor schedule_event of utils_emot.py reads: the keys it tests and
\* the values it takes.  tc_min / tc_max are the 'min' / 'max' entries of
\* 'time_constraints', as minutes after midnight.
EventDetails(keys, day, date, time, duration, travel_time, tc_min, tc_max) ==
    [keys |-> keys \cup (IF tc_min # None \/ tc_max # None THEN {"time_constraints"}
                         ELSE {}),
     action |-> "CREATE", title |-> <<"D", "e", "n", "t">>,
     day |-> day, date |-> date, time |-> time, duration |-> duration,
     travel_time |-> travel_time, tc_min |-> tc_min, tc_max |-> tc_max]

\* The time parse of schedule_event: split on whitespace, then on ':', int()
\* of the parts, the period taken from the second word.  The result is the
\* pair <<hour, minute>> before any range test.
ParseClock(t) ==
    IF t.form # "clock" \/ ~t.space \/ t.period = ""
    THEN InvalidInputError
    ELSE LET hour == IF t.colon \/ t.minute = None THEN t.hour
                     ELSE t.hour * 100 + t.minute
             minute == IF t.colon /\ t.minute # None THEN t.minute ELSE 0
         IN Ret(<<IF t.period = "PM" /\ hour # 12 THEN hour + 12
                  ELSE IF t.period = "AM" /\ hour = 12 THEN 0
                  ELSE hour,
                  minute>>)

\* The error classification at the end of schedule_event.
ClassifyError(e) ==
    IF e.kind = "InvalidInputError" THEN e
    ELSE IF e.grant THEN Raise("AuthenticationError", FALSE, FALSE)
    ELSE IF e.quota THEN Raise("APILimitError", FALSE, FALSE)
    ELSE GenericError

\* The outcome of one call: its result, the Slot Manager and the context.
Outcome(result, slots, ctx) ==
    [result |-> result, time_slots |-> slots, ctx |-> ctx]

\* The id the CalendarStore gives the next event.
MaxId(events) ==
    LET ids == {events[i].id : i \in 1..Len(events)} \cup {0}
    IN CHOOSE m \in ids : \A n \in ids : n <= m
NextId(events) == MaxId(events) + 1

\* events().insert(body=event) of schedule_event of utils_emot.py: the times
\* are written in UTC and named 'UTC'.
Insert(events, summary, start_time, end_time) ==
    Append(events,
           Event(NextId(events), TRUE, summary,
                 Stamp("dateTime", start_time - UserUtcOffset, 0, "UTC"),
                 Stamp("dateTime", end_time - UserUtcOffset, 0, "UTC")))

\* What schedule_event of utils_emot.py returns.
Scheduled(start_time, end_time) ==
    [shape |-> "four", start_time |-> start_time, end_time |-> end_time,
     link |-> "link", message |-> None]

\* The date schedule_event of utils_emot.py resolves: 'date', or the next day
\* with the weekday 'day' (a week ahead when that is today and it is 18:00 or
\* later), or today.
EventDate(event_details, current_time) ==
    LET today == DateOf(current_time)
        target_day == DayNumber(event_details.day)
        days_ahead == IF (target_day - WeekdayOf(today)) % 7 = 0
                         /\ (current_time % MinutesPerDay) \div 60 >= 18
                      THEN 7
                      ELSE (target_day - WeekdayOf(today)) % 7
    IN IF Has(event_details, "date") THEN event_details.date.d
       ELSE IF Has(event_details, "day") THEN today + days_ahead
       ELSE today

\* preferred_start of schedule_event of utils_emot.py: the time on the
\* resolved date, moved a week ('day' given) or a day on when the date is
\* today and the time is past.
PreferredStart(event_details, current_time) ==
    LET event_date == EventDate(event_details, current_time)
        clock == ParseClock(event_details.time)
        nominal == event_date * MinutesPerDay + clock.val[1] * 60 + clock.val[2]
    IN IF event_date = DateOf(current_time) /\ nominal < current_time
       THEN IF Has(event_details, "day") THEN nominal + 7 * MinutesPerDay
            ELSE nominal + MinutesPerDay
       ELSE nominal

\* event_details.get('duration', 30) and event_details.get('travel_time', 0)
DurationOf(event_details) ==
    IF Has(event_details, "duration") THEN event_details.duration ELSE DefaultDuration
TravelTimeOf(event_details) ==
    IF Has(event_details, "travel_time") THEN event_details.travel_time ELSE 0

\* The start time the Slot Manager returns to schedule_event of utils_emot.py.
SlotFound(event_details, current_time, slots) ==
    LET event_date == EventDate(event_details, current_time)
        raw_min == event_date * MinutesPerDay + event_details.tc_min
        min_time == IF ~Has(event_details, "time_constraints") THEN None
                    ELSE IF event_details.tc_min = None THEN None
                    ELSE IF raw_min < current_time THEN current_time ELSE raw_min
        max_time == IF ~Has(event_details, "time_constraints") THEN None
                    ELSE IF event_details.tc_max = None THEN None
                    ELSE event_date * MinutesPerDay + event_details.tc_max
    IN find_available_slot(SlotsOf(slots, event_date), current_time,
           DurationOf(event_details) + TravelTimeOf(event_details),
           PreferredStart(event_details, current_time), min_time, max_time)

\* The adjustment for travel time with the shift lost: the block starts at
\* the appointment.
TravelShiftDropped(start_time, travel_time) == start_time

\* "Adjust for travel time": start_time - timedelta(minutes=travel_time)
TravelShift(start_time, travel_time) == start_time - travel_time

\* schedule_event of utils_emot.py.
schedule_event(event_details, current_time, slots, ctx, fail) ==
    LET target_day == DayNumber(event_details.day)
        event_date == EventDate(event_details, current_time)
        clock == ParseClock(event_details.time)
        travel_time == TravelTimeOf(event_details)
        total_duration == DurationOf(event_details) + travel_time
        start_time == TravelShift(SlotFound(event_details, current_time, slots),
                                  travel_time)
        end_time == start_time + total_duration
        looked == SetSlots(slots, event_date, SlotsOf(slots, event_date))
        inserted == Called(ctx, "insert", NextId(ctx.events))
    IN IF Has(event_details, "date") /\ event_details.date.form # "iso"
       THEN Outcome(InvalidInputError, slots, ctx)
       ELSE IF ~Has(event_details, "date") /\ Has(event_details, "day")
               /\ target_day = None
       THEN Outcome(InvalidInputError, slots, ctx)
       ELSE IF ~Has(event_details, "time") \/ clock.tag = "exc"
       THEN Outcome(InvalidInputError, slots, ctx)
       ELSE IF clock.val[1] > 23 \/ clock.val[2] > 59
       THEN Outcome(GenericError, slots, ctx)
       ELSE IF ~Has(event_details, "title") THEN Outcome(GenericError, looked, ctx)
       ELSE IF Fails(ctx, fail)
       THEN Outcome(ClassifyError(fail.error), looked, inserted)
       ELSE Outcome(Ret(Scheduled(start_time, end_time)),
                    SetSlots(looked, event_date,
                        add_time_slot(SlotsOf(looked, event_date), start_time,
                                      end_time, NextId(ctx.events))),
                    [inserted EXCEPT !.events =
                        Insert(@, event_details.title, start_time, end_time)])

\* The loop of the recurring branch of handle_calendar_action: one
\* schedule_event per day today + i, i < 7, with 'date' set to that day and
\* 'day' removed; a day whose weekday is not the descriptor's is skipped and a
\* failed day is passed over.  created lists the results of the days made.
RECURSIVE RecurringFrom(_, _, _, _, _, _, _)
RecurringFrom(i, event_details, current_time, slots, ctx, fail, created) ==
    IF i >= 7
    THEN Outcome(IF created = <<>>
                 THEN Ret(Four(None, "Failed to create any recurring events"))
                 ELSE IF ~Has(event_details, "title") THEN GenericError
                 ELSE Ret([created[1] EXCEPT !.message = "Created recurring event"]),
                 slots, ctx)
    ELSE LET current_date == DateOf(current_time) + i
             event_copy == [event_details EXCEPT
                               !.keys = (@ \cup {"date"}) \ {"recurring", "day"},
                               !.date = DateStr("iso", current_date)]
         IN IF Has(event_details, "day")
               /\ DayCodes[WeekdayOf(current_date) + 1] # event_details.day
            THEN RecurringFrom(i + 1, event_details, current_time, slots, ctx, fail, created)
            ELSE The({RecurringFrom(i + 1, event_details, current_time, r.time_slots,
                              r.ctx, fail,
                              IF r.result.tag = "ret" THEN Append(created, r.result.val)
                              ELSE created) :
        r \in {schedule_event(event_copy, current_time, slots, ctx, fail)}})

\* The CREATE branch of handle_calendar_action of utils_emot.py.
handle_create(event_details, current_time, slots, ctx, fail) ==
    IF Has(event_details, "recurring")
    THEN RecurringFrom(0, event_details, current_time, slots, ctx, fail, <<>>)
    ELSE schedule_event(event_details, current_time, slots, ctx, fail)

\* The except clauses at the end of edit_event and delete_event (utils_emot.py
\* and edit_event of utils.py).
ExecutorError(e) ==
    IF e.kind \in {"EventNotFoundError", "InvalidInputError"} THEN e
    ELSE IF e.grant THEN Raise("AuthenticationError", FALSE, FALSE)
    ELSE IF e.quota THEN Raise("APILimitError", FALSE, FALSE)
    ELSE GenericError

\* The event with the given id.
EventById(events, id) ==
    events[CHOOSE i \in 1..Len(events) : events[i].id = id]

\* events().delete(eventId=id)
Remove(events, id) ==
    SelectSeq(events, LAMBDA e : e.id # id)

\* datetime.strptime(time, '%I:%M %p'): minutes after midnight, or None.
ClockOf(t) ==
    IF t.form = "clock" /\ t.space /\ t.period \in {"AM", "PM"} /\ t.hour \in 1..12
       /\ t.colon /\ t.minute # None /\ t.minute <= 59
    THEN ((t.hour % 12) + IF t.period = "PM" THEN 12 ELSE 0) * 60 + t.minute
    ELSE None

\* The start and end edit_event writes for the matched event: Raise when a
\* value of the descriptor does not parse.
EditedTimes(d, full_event, current_time) ==
    LET zone == TimeZoneOf(full_event.start)
        event_start == parse_datetime_from_api(full_event.start, zone)
        event_end == parse_datetime_from_api(full_event.end, TimeZoneOf(full_event.end))
        duration_minutes == IF Has(d, "duration") THEN d.duration
                            ELSE event_end - event_start
        timed == IF Has(d, "time")
                 THEN DateOf(event_start) * MinutesPerDay + ClockOf(d.time)
                 ELSE event_start
        today == DateOf(current_time)
        target_day == DayNumber(d.day)
        days_ahead == IF (target_day - WeekdayOf(today)) % 7 = 0
                         /\ TimeOfDay(current_time) \div 60 > TimeOfDay(timed) \div 60
                      THEN 7
                      ELSE (target_day - WeekdayOf(today)) % 7
        dated == IF Has(d, "date") THEN d.date.d * MinutesPerDay + TimeOfDay(timed)
                 ELSE IF Has(d, "day")
                 THEN (today + days_ahead) * MinutesPerDay + TimeOfDay(timed)
                 ELSE timed
    IN IF Has(d, "time") /\ ClockOf(d.time) = None THEN InvalidInputError
       ELSE IF Has(d, "date") /\ d.date.form # "iso" THEN InvalidInputError
       ELSE IF ~Has(d, "date") /\ Has(d, "day") /\ target_day = None
       THEN Raise("KeyError", FALSE, FALSE)
       ELSE Ret([start |-> Stamp("dateTime", dated, UtcOffset(zone), UserTimezone),
                 end |-> Stamp("dateTime", dated + duration_minutes, UtcOffset(zone),
                               UserTimezone)])

\* updated_event['summary'] with the original title lost.
UpdatedSummaryBlank(d, full_event) == IF Has(d, "new_title") THEN d.new_title ELSE NoText

\* updated_event['summary']: event_details.get('new_title', full_event['summary'])
UpdatedSummary(d, full_event) ==
    IF Has(d, "new_title") THEN d.new_title ELSE full_event.summary

\* updated_event['description'] and updated_event['location']: the value of
\* the descriptor, else the value of the event, else no such key.
UpdatedNotes(d, full_event) ==
    [description |-> IF Has(d, "description") THEN d.description
                     ELSE full_event.description,
     location |-> IF Has(d, "location") THEN d.location ELSE full_event.location]

\* events().update(eventId=id, body=...): the summary, the description and
\* the location of the body, and the start and end when the body has them.
Update(events, id, summary, notes, times) ==
    [i \in 1..Len(events) |->
        IF events[i].id # id THEN events[i]
        ELSE [events[i] EXCEPT !.summary = summary,
                               !.description = notes.description,
                               !.location = notes.location,
                               !.start = IF times.tag = "ret" THEN times.val.start ELSE @,
                               !.end = IF times.tag = "ret" THEN times.val.end ELSE @]]

\* edit_event from the answer m of find_matching_events on: d is the
\* validated descriptor.
EditMatched(d, m, ctx, fail, current_time) ==
    LET listed == Called(ctx, "list", 0)
        event_to_edit == m.val[1]
        got == Called(listed, "get", event_to_edit.id)
        full_event == EventById(ctx.events, event_to_edit.id)
        summary == UpdatedSummary(d, full_event)
        updated == Called(got, "update", event_to_edit.id)
    IN IF m.tag = "exc" THEN Done(ExecutorError(m), listed)
       ELSE IF m.val = <<>> THEN Done(EventNotFoundError, listed)
       ELSE IF Len(m.val) > 1
       THEN Done(Ret(Four(None, "disambiguation")), listed)
       ELSE IF Fails(listed, fail) THEN Done(ExecutorError(fail.error), got)
       \* kind "unchanged" stands for a body without start and end
       ELSE The({IF times.tag = "exc" /\ times.kind # "unchanged"
                 THEN Done(ExecutorError(times), got)
                 ELSE IF Fails(got, fail) THEN Done(ExecutorError(fail.error), updated)
                 ELSE Done(Ret(Four("link", "updated")),
                           [updated EXCEPT !.events =
                               Update(@, event_to_edit.id, summary,
                                      UpdatedNotes(d, full_event), times)]) :
                 times \in {IF d.keys \cap {"time", "date", "day", "duration"} # {}
                            THEN EditedTimes(d, full_event, current_time)
                            ELSE Raise("unchanged", FALSE, FALSE)}})

\* edit_event (utils_emot.py and utils.py).
edit_event(event_details, ctx, fail, current_time) ==
    The({IF v.tag = "exc" THEN Done(ExecutorError(v), ctx)
         ELSE The({EditMatched(v.val, m, ctx, fail, current_time) :
                   m \in {find_matching_events(ctx.events, v.val,
                              IF Fails(ctx, fail) THEN fail.error ELSE Ret(0))}}) :
         v \in {validate_event_details(event_details, DateOf(current_time))}})

\* delete_event of utils_emot.py.
emot_delete_event(event_details, ctx, fail, current_time) ==
    LET listed == Called(ctx, "list", 0)
        Matched(m) ==
            LET event_to_delete == m.val[1]
                deleted == Called(listed, "delete", event_to_delete.id)
            IN IF m.tag = "exc" THEN Done(ExecutorError(m), listed)
               ELSE IF m.val = <<>> THEN Done(EventNotFoundError, listed)
               ELSE IF Len(m.val) > 1
               THEN Done(Ret(Four(None, "disambiguation")), listed)
               ELSE IF Fails(listed, fail) THEN Done(ExecutorError(fail.error), deleted)
               ELSE Done(Ret(Four(None, "deleted")),
                         [deleted EXCEPT !.events = Remove(@, event_to_delete.id)])
    IN The({IF v.tag = "exc" THEN Done(ExecutorError(v), ctx)
            ELSE The({Matched(m) :
                      m \in {find_matching_events(ctx.events, v.val,
                                 IF Fails(ctx, fail) THEN fail.error ELSE Ret(0))}}) :
            v \in {validate_event_details(event_details, DateOf(current_time))}})

\* The first event of the list whose lower-cased summary is the lower-cased
\* original_title, as the loop of delete_event of utils.py finds it: its
\* index, 0 when there is none, None when the loop raises KeyError on an event
\* without summary or on a descriptor without original_title.
RECURSIVE FirstByTitle(_, _, _)
FirstByTitle(events, i, event_details) ==
    IF i > Len(events) THEN 0
    ELSE IF ~events[i].summary_key \/ ~Has(event_details, "original_title") THEN None
    ELSE IF lower(events[i].summary) = lower(event_details.original_title) THEN i
    ELSE FirstByTitle(events, i + 1, event_details)

\* delete_event of utils.py.
utils_delete_event(event_details, ctx, fail) ==
    LET listed == Called(ctx, "list", 0)
        found == FirstByTitle(ctx.events, 1, event_details)
        deleted == Called(listed, "delete", ctx.events[found].id)
    IN IF Fails(ctx, fail) THEN Done(Ret(Pair(FALSE, "Error deleting event")), listed)
       ELSE IF found = None THEN Done(Ret(Pair(FALSE, "Error deleting event")), listed)
       ELSE IF found = 0 THEN Done(Ret(Pair(FALSE, "Could not find event")), listed)
       ELSE IF Fails(listed, fail)
       THEN Done(Ret(Pair(FALSE, "Error deleting event")), deleted)
       ELSE Done(Ret(Pair(TRUE, "deleted")),
                 [deleted EXCEPT !.events = Remove(@, ctx.events[found].id)])

\* The events events().list(timeMin, timeMax) returns for the day d: those
\* that start on that day of the user's calendar.
EventsOn(events, d) ==
    SelectSeq(events, LAMBDA e : DateOf(LocalInstant(e.start)) = d)

\* get_events_for_day of utils.py, for event_details.get('day') and
\* event_details.get('date').
get_events_for_day(event_details, ctx, fail, current_time) ==
    LET day == Has(event_details, "day") /\ event_details.day # ""
        date == Has(event_details, "date") /\ event_details.date.form # "none"
        today == DateOf(current_time)
        target == IF date THEN event_details.date.d
                  ELSE today + ((DayNumber(Upper(event_details.day)) - WeekdayOf(today)) % 7)
        listed == Called(ctx, "list", 0)
    IN IF ~day /\ ~date THEN Done(Ret(<<>>), ctx)
       ELSE IF ~date /\ DayNumber(Upper(event_details.day)) = None
       THEN Done(Raise("CalendarError", FALSE, FALSE), ctx)
       ELSE IF date /\ event_details.date.form # "iso"
       THEN Done(Raise("CalendarError", FALSE, FALSE), ctx)
       ELSE IF Fails(ctx, fail)
       THEN Done(Raise("CalendarError", fail.error.grant, fail.error.quota), listed)
       ELSE Done(Ret(EventsOn(ctx.events, target)), listed)

\* events().insert(body=event) of schedule_event of utils.py: the times are
\* written in UTC and named with the user's timezone.
InsertEvent(events, summary, start_time, end_time) ==
    Append(events,
           Event(Len(events) + 1, TRUE, summary,
                 Stamp("dateTime", start_time - UserUtcOffset, 0, UserTimezone),
                 Stamp("dateTime", end_time - UserUtcOffset, 0, UserTimezone)))

\* start_time of schedule_event of utils.py before the adjustment for travel
\* time: the time of the descriptor on 'date', or on the next day with the
\* weekday 'day', or today.
UtilsNominalStart(event_details, current_time) ==
    LET today == DateOf(current_time)
        event_date == IF Has(event_details, "date") THEN event_details.date.d
                      ELSE IF Has(event_details, "day")
                      THEN today + ((DayNumber(event_details.day) - WeekdayOf(today)) % 7)
                      ELSE today
        clock == ParseClock(event_details.time)
    IN event_date * MinutesPerDay + clock.val[1] * 60 + clock.val[2]

\* schedule_event of utils.py: every failure is returned as (False, message).
utils_schedule_event(event_details, ctx, fail, current_time) ==
    LET target_day == DayNumber(event_details.day)
        clock == ParseClock(event_details.time)
        nominal == UtilsNominalStart(event_details, current_time)
        duration == DurationOf(event_details)
        travel_time == TravelTimeOf(event_details)
        start_time == TravelShift(nominal, travel_time)
        end_time == start_time + duration + travel_time
        inserted == Called(ctx, "insert", Len(ctx.events) + 1)
        failed == Ret(Pair(FALSE, "Error scheduling event"))
    IN IF Has(event_details, "date") /\ event_details.date.form # "iso"
       THEN Done(failed, ctx)
       ELSE IF ~Has(event_details, "date") /\ Has(event_details, "day")
               /\ target_day = None
       THEN Done(failed, ctx)
       ELSE IF ~Has(event_details, "time") \/ clock.tag = "exc" THEN Done(failed, ctx)
       ELSE IF clock.val[1] > 23 \/ clock.val[2] > 59 THEN Done(failed, ctx)
       ELSE IF ~Has(event_details, "title") THEN Done(failed, ctx)
       ELSE IF nominal < current_time THEN Done(Ret(Pair(FALSE, "Skipped")), ctx)
       ELSE IF Fails(ctx, fail) THEN Done(failed, inserted)
       ELSE Done(Ret(Pair(TRUE, "Scheduled")),
                 [inserted EXCEPT !.events =
                     InsertEvent(@, event_details.title, start_time, end_time)])

\* The loop of the recurring branch of handle_calendar_action of utils.py.
RECURSIVE UtilsRecurringFrom(_, _, _, _, _, _)
UtilsRecurringFrom(i, event_details, ctx, fail, current_time, events_created) ==
    IF i >= 7
    THEN Done(IF events_created = 0
              THEN Ret(Pair(FALSE, "Failed to create any recurring events"))
              ELSE IF ~Has(event_details, "title") \/ ~Has(event_details, "time")
              THEN Ret(Pair(FALSE, "Error handling calendar action"))
              ELSE Ret(Pair(TRUE, "Created recurring event")), ctx)
    ELSE LET current_date == DateOf(current_time) + i
             event_copy == [event_details EXCEPT
                               !.keys = (@ \cup {"date"}) \ {"recurring", "day"},
                               !.date = DateStr("iso", current_date)]
         IN IF Has(event_details, "day")
               /\ DayCodes[WeekdayOf(current_date) + 1] # event_details.day
            THEN UtilsRecurringFrom(i + 1, event_details, ctx, fail, current_time,
                                    events_created)
            ELSE The({UtilsRecurringFrom(i + 1, event_details, r.ctx, fail,
                              current_time,
                              IF r.result.val.success THEN events_created + 1
                              ELSE events_created) :
        r \in {utils_schedule_event(event_copy, ctx, fail, current_time)}})

\* The UNKNOWN branch with the text of the descriptor lost.
UnknownReplyReworded(event_details) == NoText

\* The text the UNKNOWN branch of handle_calendar_action returns:
\* event_details['clarification'].
UnknownReply(event_details) == event_details.clarification

\* format_event_details for the events get_events_for_day returns: the
\* listing, or the KeyError of event['summary'].
format_event_details(events) ==
    IF \E i \in 1..Len(events) : ~events[i].summary_key
    THEN Raise("KeyError", FALSE, FALSE)
    ELSE Ret("listing")

\* handle_calendar_action of utils.py.
utils_handle_calendar_action(event_details, ctx, fail, current_time) ==
    LET failed == Ret(Pair(FALSE, "Error handling calendar action"))
        Edited(edited) ==
            IF edited.result.tag = "exc" THEN Done(failed, edited.ctx) ELSE edited
        Viewed(viewed) ==
            IF viewed.result.tag = "exc" THEN Done(failed, viewed.ctx)
            ELSE IF viewed.result.val = <<>>
            THEN Done(Ret(Pair(TRUE, "You have no events scheduled for this day.")),
                      viewed.ctx)
            ELSE IF format_event_details(viewed.result.val).tag = "exc"
            THEN Done(failed, viewed.ctx)
            ELSE Done(Ret(Pair(TRUE, "listing")), viewed.ctx)
    IN IF ~Has(event_details, "action") THEN Done(failed, ctx)
       ELSE IF event_details.action = "CREATE"
       THEN IF Has(event_details, "recurring")
            THEN UtilsRecurringFrom(0, event_details, ctx, fail, current_time, 0)
            ELSE utils_schedule_event(event_details, ctx, fail, current_time)
       ELSE IF event_details.action = "EDIT"
       THEN The({Edited(name) :
                 name \in {edit_event(event_details, ctx, fail, current_time)}})
       ELSE IF event_details.action = "DELETE"
       THEN utils_delete_event(event_details, ctx, fail)
       ELSE IF event_details.action = "VIEW"
       THEN The({Viewed(name) :
                 name \in {get_events_for_day(event_details, ctx, fail, current_time)}})
       ELSE IF event_details.action = "UNKNOWN"
       THEN IF Has(event_details, "clarification")
            THEN Done(Ret(Pair(FALSE, UnknownReply(event_details))), ctx)
            ELSE Done(failed, ctx)
       ELSE Done(Ret(NoneValue), ctx)

\* get_events_for_day of utils_emot.py, for event_details.get('day') and
\* event_details.get('date').
emot_get_events_for_day(event_details, ctx, fail, current_time) ==
    LET day == Has(event_details, "day") /\ event_details.day # ""
        date == Has(event_details, "date") /\ event_details.date.form # "none"
        today == DateOf(current_time)
        std_date == standardize_date_format(event_details.date, today)
        std_day == standardize_day_format(event_details.day)
        days_ahead == IF (DayNumber(std_day.val) - WeekdayOf(today)) % 7 = 0
                         /\ TimeOfDay(current_time) \div 60 >= 18
                      THEN 7
                      ELSE (DayNumber(std_day.val) - WeekdayOf(today)) % 7
        target == IF date THEN std_date.val.d
                  ELSE IF day THEN today + days_ahead
                  ELSE today
        listed == Called(ctx, "list", 0)
        events == EventsOn(ctx.events, target)
    IN IF date /\ std_date.tag = "exc" THEN Done(std_date, ctx)
       ELSE IF ~date /\ day /\ std_day.tag = "exc" THEN Done(std_day, ctx)
       ELSE IF Fails(ctx, fail) THEN Done(ExecutorError(fail.error), listed)
       ELSE IF \E i \in 1..Len(events) : ~events[i].summary_key
       THEN Done(GenericError, listed)
       ELSE Done(Ret(events), listed)

\* handle_calendar_action of utils_emot.py: whatever an executor raises is
\* raised again as a generic Exception that quotes its message.
emot_handle_calendar_action(event_details, current_time, slots, ctx, fail) ==
    LET Reraised(r) == IF r.tag = "exc" THEN Raise("Exception", r.grant, r.quota) ELSE r
        Created(created) ==
            Outcome(Reraised(created.result), created.time_slots, created.ctx)
        Returned(done) == Outcome(Reraised(done.result), slots, done.ctx)
        Viewed(viewed) ==
            IF viewed.result.tag = "exc"
            THEN Outcome(Reraised(viewed.result), slots, viewed.ctx)
            ELSE IF viewed.result.val = <<>>
            THEN Outcome(Ret(Four(None, "You have no events scheduled for this day.")),
                         slots, viewed.ctx)
            ELSE Outcome(Ret(Four(None, "listing")), slots, viewed.ctx)
    IN IF ~Has(event_details, "action") THEN Outcome(GenericError, slots, ctx)
       ELSE IF event_details.action = "CREATE"
       THEN The({Created(name) :
                 name \in {handle_create(event_details, current_time, slots, ctx, fail)}})
       ELSE IF event_details.action = "EDIT"
       THEN The({Returned(name) :
                 name \in {edit_event(event_details, ctx, fail, current_time)}})
       ELSE IF event_details.action = "DELETE"
       THEN The({Returned(name) :
                 name \in {emot_delete_event(event_details, ctx, fail, current_time)}})
       ELSE IF event_details.action = "VIEW"
       THEN The({Viewed(name) :
                 name \in {emot_get_events_for_day(event_details, ctx, fail, current_time)}})
       ELSE IF event_details.action = "UNKNOWN"
       THEN IF Has(event_details, "clarification")
            THEN Outcome(Ret(Four(None, UnknownReply(event_details))), slots, ctx)
            ELSE Outcome(GenericError, slots, ctx)
       ELSE Outcome(Ret(NoneValue), slots, ctx)

\* ------------------------------------------------- a session of CREATEs
\* At most this many CREATE requests are made in a session.
MaxCreates == 2

\* The instants of the session's clock: Monday 09:30 and 18:30.
Clock == {Base + Step, 18 * 60 + 30}

NineAm == FormatTime(9, 0, "AM")
TenAm == FormatTime(10, 0, "AM")
TenPm == FormatTime(10, 0, "PM")
\* '10:00': no period, so the parse of schedule_event fails.
BareTen == TimeStr(10, 0, TRUE, FALSE, "")

\* A validated CREATE descriptor always has a duration.
CreateKeys ==
    {{"action", "title", "time", "duration"} \cup extra :
        extra \in SUBSET {"day", "date", "travel_time", "recurring"}}

CreateInputs ==
    {EventDetails(keys, day, date, time, 2 * Step, Step, tc[1], tc[2]) :
        keys \in CreateKeys,
        day \in {"MON"},
        date \in {DateStr("iso", 0), DateStr("iso", 1)},
        time \in {NineAm, TenAm, BareTen},
        tc \in {<<None, None>>, <<Base, Base + 4 * Step>>}}

\* The value a field has when its key is missing is never read.
Canonical(d) ==
    /\ ("day" \notin d.keys => d.day = "MON")
    /\ ("date" \notin d.keys => d.date = DateStr("iso", 0))

InitSched ==
    /\ now \in Clock
    /\ time_slots = EmptyDict
    /\ store = <<>>
    /\ op = [name |-> "idle", creates |-> 0]

\* One CREATE request through handle_calendar_action.
Create ==
    \E event_details \in CreateInputs,
       fail \in {NoFailure, [at |-> 1, error |-> Raise("HttpError", FALSE, FALSE)]} :
        /\ op.creates < MaxCreates
        /\ Canonical(event_details)
        /\ \E r \in {emot_handle_calendar_action(event_details, now, time_slots,
                                                 Ctx(store, <<>>), fail)} :
              /\ time_slots' = r.time_slots
              /\ store' = r.ctx.events
              /\ op' = [name |-> "create", creates |-> op.creates + 1,
                        event_details |-> event_details,
                        current_time |-> now, before |-> store,
                        ret |-> r.result]
        /\ UNCHANGED now

\* Time passes between two requests.
Advance ==
    \E t \in Clock :
        /\ t > now
        /\ now' = t
        /\ op' = [name |-> "idle", creates |-> op.creates]
        /\ UNCHANGED <<time_slots, store>>

NextSched == Create \/ Advance

SpecSched == InitSched /\ [][NextSched]_vars

\* C3: no two blocks [start, end) inserted into the CalendarStore by the
\* CREATEs of one session overlap.
C3_NoOverlappingBlocks ==
    \A i, j \in 1..Len(store) :
        i < j => ~(/\ LocalInstant(store[i].start) < LocalInstant(store[j].end)
                   /\ LocalInstant(store[i].end) > LocalInstant(store[j].start))

\* ------------------------------------------------- the executors alone
DentistTuesdaySix == OffsetEvent(TRUE, Dentist, TuesdaySix)

\* The events the CalendarStore is filled with for the executors.
ExecPool ==
    {DentistTuesdaySix, ZuluEvent(TRUE, Dentist, TuesdaySix),
     ZuluEvent(TRUE, Standup, TuesdayTwo), OffsetEvent(FALSE, NoText, TuesdaySix)}

ExecStores ==
    {Numbered(events) : events \in UNION {[1..n -> ExecPool] : n \in 0..MaxEvents}}

\* The descriptors the executors are driven with.
ExecD(keys, action, title, original_title, day, time) ==
    Descriptor(keys, IF "action" \in keys THEN action ELSE "",
               IF "title" \in keys THEN title ELSE NoText,
               IF "original_title" \in keys THEN original_title ELSE NoText,
               IF "new_title" \in keys THEN Standup ELSE NoText,
               IF "day" \in keys THEN day ELSE "", NoDate,
               IF "time" \in keys THEN time ELSE NoTime,
               None, None,
               IF "clarification" \in keys THEN DefaultClarification ELSE NoText)

ExecInputs ==
    {ExecD({"action", "original_title"} \cup keys, action, NoText, dentist, day, time) :
        keys \in SUBSET {"new_title", "day", "time"},
        action \in {"EDIT", "DELETE"}, day \in {"TUE", "someday"},
        time \in {SixPm, TwoPm}}
    \cup {ExecD(keys, action, Dentist, NoText, "TUE", TenAm) :
            keys \in {{"action", "title", "time"}, {"action", "title", "day", "time"},
                      {"action", "title", "time", "recurring"}, {"action", "day"},
                      {"action"}, {"action", "clarification"}, {"day"}},
            action \in {"CREATE", "VIEW", "UNKNOWN", "REMIND"}}

\* The call that fails, if any, and how.
Failures ==
    {NoFailure} \cup {[at |-> n, error |-> e] : n \in 1..3, e \in StoreErrors}

InitExec ==
    /\ now = Base
    /\ time_slots = EmptyDict
    /\ store \in ExecStores
    /\ op \in {[name |-> "call", arg |-> d, fail |-> f] :
                  d \in ExecInputs, f \in Failures}

\* The record of an executed call.
Executed(name, r) ==
    [name |-> name, arg |-> op.arg, fail |-> op.fail, before |-> store,
     ret |-> r.result, calls |-> r.ctx.calls]

\* A call of handle_calendar_action of utils.py.
HandleCalendarAction ==
    /\ op.name = "call"
    /\ \E r \in {utils_handle_calendar_action(op.arg, Ctx(store, <<>>), op.fail, now)} :
          /\ store' = r.ctx.events
          /\ op' = Executed("handle_calendar_action", r)
    /\ UNCHANGED <<now, time_slots>>

\* A call of handle_calendar_action of utils_emot.py.
EmotHandleCalendarAction ==
    /\ op.name = "call"
    /\ \E r \in {emot_handle_calendar_action(op.arg, now, time_slots, Ctx(store, <<>>),
                                             op.fail)} :
          /\ store' = r.ctx.events
          /\ time_slots' = r.time_slots
          /\ op' = Executed("emot.handle_calendar_action", r)
    /\ UNCHANGED now

\* A call of edit_event.
EditEvent ==
    /\ op.name = "call"
    /\ op.arg.action = "EDIT"
    /\ \E r \in {edit_event(op.arg, Ctx(store, <<>>), op.fail, now)} :
          /\ store' = r.ctx.events
          /\ op' = Executed("edit_event", r)
    /\ UNCHANGED <<now, time_slots>>

\* A call of delete_event of utils_emot.py.
DeleteEvent ==
    /\ op.name = "call"
    /\ op.arg.action = "DELETE"
    /\ \E r \in {emot_delete_event(op.arg, Ctx(store, <<>>), op.fail, now)} :
          /\ store' = r.ctx.events
          /\ op' = Executed("delete_event", r)
    /\ UNCHANGED <<now, time_slots>>

\* A call of delete_event of utils.py.
UtilsDeleteEvent ==
    /\ op.name = "call"
    /\ op.arg.action = "DELETE"
    /\ \E r \in {utils_delete_event(op.arg, Ctx(store, <<>>), op.fail)} :
          /\ store' = r.ctx.events
          /\ op' = Executed("utils.delete_event", r)
    /\ UNCHANGED <<now, time_slots>>

NextExec ==
    \/ HandleCalendarAction
    \/ EmotHandleCalendarAction
    \/ EditEvent
    \/ DeleteEvent
    \/ UtilsDeleteEvent

SpecExec == InitExec /\ [][NextExec]_vars

\* The call recorded in op is one of the named functions, for a descriptor
\* with one of the actions.
Executing(names, actions) ==
    /\ op.name \in names
    /\ "action" \in op.arg.keys
    /\ op.arg.action \in actions

CallsOf(kinds) == {i \in 1..Len(op.calls) : op.calls[i].call \in kinds}

\* C8: a DELETE descriptor with original_title and none of day, date, time is
\* rejected with InvalidInputError, and neither a list nor a delete call is
\* issued for it, through delete_event and through handle_calendar_action.
C8_BareDeleteRejected ==
    (Executing({"delete_event", "utils.delete_event", "handle_calendar_action"}, {"DELETE"})
        /\ "original_title" \in op.arg.keys
        /\ op.arg.keys \cap {"day", "date", "time"} = {}) =>
        /\ op.ret.tag = "exc" /\ op.ret.kind = "InvalidInputError"
        /\ CallsOf({"list", "delete"}) = {}

\* C9: EDIT and DELETE issue an update / delete only when the Event Matcher
\* returns exactly one match, and for that match's id; with no match the
\* executor raises EventNotFoundError, with several it returns a
\* disambiguation listing, and neither issues an update or a delete.
C9_OnlyTheSingleMatch ==
    LET v == validate_event_details(op.arg, DateOf(now))
        m == find_matching_events(op.before, v.val, Ret(0))
    IN (Executing({"edit_event", "delete_event", "utils.delete_event"}, {"EDIT", "DELETE"})
           /\ v.tag = "ret" /\ op.fail.at # 1) =>
        /\ \A i \in CallsOf({"update", "delete"}) :
               Len(m.val) = 1 /\ op.calls[i].id = m.val[1].id
        /\ (m.val = <<>> =>
               op.ret.tag = "exc" /\ op.ret.kind = "EventNotFoundError")
        /\ (Len(m.val) > 1 =>
               /\ op.ret.tag = "ret"
               /\ op.ret.val.message = "disambiguation"
               /\ CallsOf({"update", "delete"}) = {})

\* The armed failure was raised: the call numbered fail.at was issued.
FailureRaised == op.fail.at \in 1..Len(op.calls)

\* C16: an authentication failure raised at a CalendarStore call of
\* edit_event or delete_event (the list call of the matcher, the get, the
\* update, the delete) leaves the function as AuthenticationError and a quota
\* failure as APILimitError.
C16_StoreFailuresClassified ==
    (Executing({"edit_event", "delete_event"}, {"EDIT", "DELETE"}) /\ FailureRaised) =>
        /\ (op.fail.error.grant =>
               op.ret.tag = "exc" /\ op.ret.kind = "AuthenticationError")
        /\ (op.fail.error.quota =>
               op.ret.tag = "exc" /\ op.ret.kind = "APILimitError")

\* The error kinds the Request Orchestrator has a message for.
TypedErrors ==
    {"EventNotFoundError", "InvalidInputError", "AuthenticationError", "APILimitError"}

\* C17: a typed error raised by edit_event leaves handle_calendar_action, of
\* utils.py and of utils_emot.py, as an exception of the same kind.
C17_TypedErrorsPropagate ==
    Executing({"handle_calendar_action", "emot.handle_calendar_action"}, {"EDIT"}) =>
        \A raised \in {edit_event(op.arg, Ctx(op.before, <<>>), op.fail, now).result} :
            (raised.tag = "exc" /\ raised.kind \in TypedErrors) =>
                op.ret.tag = "exc" /\ op.ret.kind = raised.kind

\* C15: executing a descriptor with action UNKNOWN issues no CalendarStore
\* call, leaves the CalendarStore and the Slot Manager as they were and
\* returns the clarification of the descriptor unchanged.  (The executors
\* take no answer of the Interpreter: they never call it.)
C15_UnknownNoEffect ==
    (Executing({"handle_calendar_action", "emot.handle_calendar_action"}, {"UNKNOWN"})
        /\ "clarification" \in op.arg.keys) =>
        /\ op.calls = <<>>
        /\ store = op.before
        /\ time_slots = EmptyDict
        /\ op.ret.tag = "ret"
        /\ op.ret.val.message = op.arg.clarification

C15_Witness ==
    /\ Executing({"emot.handle_calendar_action"}, {"UNKNOWN"})
    /\ "clarification" \in op.arg.keys
    /\ op.arg.clarification = DefaultClarification
    /\ store # <<>>
    /\ op.fail.at = 1
    /\ op.calls = <<>>
    /\ op.ret = Ret(Four(None, DefaultClarification))

\* ------------------------------------------- process_calendar_request
\* standardize_time_for_comparison: the pair <<hour, minute>> on the 24-hour
\* clock, or ValueError.  The expressions are matched at the start of the
\* string only and test no range.
standardize_time_for_comparison(t) ==
    IF t.form = "clock" /\ t.period \in {"AM", "PM"}
    THEN Ret(<<IF t.period = "PM" /\ t.hour # 12 THEN t.hour + 12
               ELSE IF t.period = "AM" /\ t.hour = 12 THEN 0
               ELSE t.hour,
               IF t.minute # None THEN t.minute ELSE 0>>)
    ELSE IF t.form = "clock" /\ t.minute # None THEN Ret(<<t.hour, t.minute>>)
    ELSE Raise("ValueError", FALSE, FALSE)

\* tolerance_minutes of compare_times
Tolerance == 5

\* compare_times
compare_times(time1, time2) ==
    Abs((time1[1] * 60 + time1[2]) - (time2[1] * 60 + time2[2])) <= Tolerance

\* "success, response_message = handle_calendar_action(...)": a 4-tuple has
\* too many values to unpack (ValueError), None cannot be unpacked (TypeError).
Unpacked(result) ==
    IF result.tag = "exc" THEN result
    ELSE IF result.val.shape = "pair" THEN result
    ELSE IF result.val.shape = "four" THEN Raise("ValueError", FALSE, FALSE)
    ELSE Raise("TypeError", FALSE, FALSE)

\* The Interpreter's answer to the prompt of process_calendar_request of
\* utils.py: form "raises" when generate_content raises, "nobrace" when the
\* text has no JSON object, "badjson" when json.loads fails, "json" for an
\* object with the given entries.  response tells whether it has a 'response'
\* entry, action is "" when it has no 'action', details is "missing", "empty",
\* "text" or "object" for a missing, empty, string or dict 'event_details'.
Reply(form, needs_more_info, response, action, details, event_details) ==
    [form |-> form, needs_more_info |-> needs_more_info, response |-> response,
     action |-> action, details |-> details, event_details |-> event_details]

\* A request to process_calendar_request of utils.py: the mood detect_mood
\* finds in the text, the Interpreter's answer to the first prompt, and its
\* answer to the prompt of parse_natural_language.
Request(mood, reply, fallback) ==
    [module |-> "utils", mood |-> mood, reply |-> reply, fallback |-> fallback]

\* The VIEW branch of process_calendar_request of utils.py.
ViewRequest(event_details, ctx, fail, current_time) ==
    LET Listed(got) ==
            LET formatted_events == format_event_details(got.result.val)
            IN IF got.result.tag = "exc" THEN got
               ELSE IF got.result.val = <<>>
               THEN IF Has(event_details, "day") /\ event_details.day # ""
                    THEN Done(Ret(Pair(TRUE, "You have no events scheduled")), got.ctx)
                    ELSE IF ~Has(event_details, "date")
                    THEN Done(Raise("KeyError", FALSE, FALSE), got.ctx)
                    ELSE Done(Ret(Pair(TRUE, "You have no events scheduled")), got.ctx)
               ELSE IF formatted_events.tag = "exc"
               THEN Done(formatted_events, got.ctx)
               ELSE Done(Ret(Pair(TRUE, formatted_events.val)), got.ctx)
    IN The({Listed(name) :
            name \in {get_events_for_day(event_details, ctx, fail, current_time)}})

\* "Process the calendar action": the call of handle_calendar_action and what
\* process_calendar_request of utils.py returns for its pair.
ActOn(event_details, ctx, fail, current_time) ==
    LET Handled(r) ==
            LET pair == Unpacked(r.result)
            IN IF pair.tag = "exc" THEN Done(pair, r.ctx)
               ELSE IF pair.val.success
               THEN Done(Ret(Pair(TRUE, pair.val.message)), r.ctx)
               ELSE Done(Ret(Pair(FALSE, "Failed to process action")), r.ctx)
    IN The({Handled(name) :
            name \in {utils_handle_calendar_action(event_details, ctx, fail, current_time)}})

\* The loop "for event in events" that looks for the exact match of a DELETE:
\* the index of the first event with the title whose written start time is
\* within the tolerance of user_time, 0 when there is none, None when
\* event["summary"] raises KeyError.
RECURSIVE ExactMatch(_, _, _, _)
ExactMatch(events, i, event_details, user_time) ==
    IF i > Len(events) THEN 0
    ELSE IF ~events[i].summary_key THEN None
    ELSE IF lower(events[i].summary) = lower(event_details.original_title)
            /\ events[i].start.key = "dateTime"
            /\ compare_times(user_time, <<TimeOfDay(events[i].start.wall) \div 60,
                                          TimeOfDay(events[i].start.wall) % 60>>)
    THEN i
    ELSE ExactMatch(events, i + 1, event_details, user_time)

\* The DELETE branch of process_calendar_request of utils.py, and the call of
\* handle_calendar_action it falls through to when the exact event exists.
DeleteRequest(event_details, ctx, fail, current_time) ==
    IF ~Has(event_details, "original_title")
    THEN Done(Ret(Pair(TRUE, "I need to know which event")), ctx)
    ELSE The({
            LET events == got.result.val
                untitled == \E i \in 1..Len(events) : ~events[i].summary_key
                matching_events ==
                    SelectSeq(events, LAMBDA e :
                        lower(e.summary) = lower(event_details.original_title))
                user_time == standardize_time_for_comparison(event_details.time)
                exact_match == ExactMatch(events, 1, event_details, user_time.val)
            IN IF got.result.tag = "exc" THEN got
               ELSE IF ~Has(event_details, "time")
               THEN IF untitled THEN Done(Raise("KeyError", FALSE, FALSE), got.ctx)
                    ELSE IF matching_events = <<>>
                    THEN Done(Ret(Pair(TRUE, "I couldn't find any events")), got.ctx)
                    ELSE Done(Ret(Pair(TRUE, "Which one would you like to delete")),
                              got.ctx)
               ELSE IF user_time.tag = "exc"
               THEN Done(Ret(Pair(TRUE, "I'm having trouble understanding the time")),
                         got.ctx)
               ELSE IF exact_match = None
               THEN Done(Raise("KeyError", FALSE, FALSE), got.ctx)
               ELSE IF exact_match = 0
               THEN IF matching_events = <<>>
                    THEN Done(Ret(Pair(TRUE, "I couldn't find any events")), got.ctx)
                    ELSE Done(Ret(Pair(TRUE, "Could you please verify the time")),
                              got.ctx)
               ELSE ActOn(event_details, got.ctx, fail, current_time) :
            got \in {get_events_for_day(event_details, ctx, fail, current_time)}})

\* The body of the inner try of process_calendar_request of utils.py, with
\* the mood test and the call of the Interpreter before it.
RequestBody(request, ctx, fail, current_time) ==
    LET reply == request.reply
        event_details == [reply.event_details EXCEPT !.keys = @ \cup {"action"},
                                                     !.action = reply.action]
    IN IF request.mood = "negative" THEN Done(Ret(Pair(TRUE, "supportive")), ctx)
       ELSE IF reply.form = "raises" THEN Done(GenericError, ctx)
       ELSE IF reply.form = "nobrace" THEN Done(Raise("ValueError", FALSE, FALSE), ctx)
       ELSE IF reply.form = "badjson"
       THEN Done(Raise("JSONDecodeError", FALSE, FALSE), ctx)
       ELSE IF reply.needs_more_info
       THEN IF reply.response THEN Done(Ret(Pair(TRUE, "response")), ctx)
            ELSE Done(Raise("KeyError", FALSE, FALSE), ctx)
       ELSE IF reply.action \in {"CREATE", "DELETE", "EDIT", "VIEW"}
       THEN IF reply.details \in {"missing", "empty"}
            THEN Done(Ret(Pair(TRUE, "I'm having trouble understanding")), ctx)
            ELSE IF reply.details = "text"
            THEN Done(Raise("TypeError", FALSE, FALSE), ctx)
            ELSE IF reply.action = "VIEW"
            THEN ViewRequest(event_details, ctx, fail, current_time)
            ELSE IF reply.action = "DELETE"
            THEN DeleteRequest(event_details, ctx, fail, current_time)
            ELSE ActOn(event_details, ctx, fail, current_time)
       ELSE IF reply.response THEN Done(Ret(Pair(TRUE, "response")), ctx)
       ELSE Done(Ret(Pair(TRUE, "I'm not sure what you'd like to do")), ctx)

\* One turn of the loop "for action in actions" of the fallback: the response
\* appended for what handle_calendar_action returned; the except clause of
\* the loop takes the exceptions of the call and of the unpacking.
ActionResponse(result) ==
    IF Unpacked(result).tag = "exc" THEN "Failed to process action (raised)"
    ELSE IF result.val.success THEN result.val.message
    ELSE "Failed to process action"

RECURSIVE ProcessActions(_, _, _, _, _, _)
ProcessActions(actions, i, ctx, fail, current_time, responses) ==
    IF i > Len(actions) THEN Done(Ret(Pair(TRUE, responses)), ctx)
    ELSE The({ProcessActions(actions, i + 1, r.ctx, fail, current_time,
                                 Append(responses, ActionResponse(r.result))) :
        r \in {utils_handle_calendar_action(actions[i], ctx, fail, current_time)}})

\* The clause "except (json.JSONDecodeError, ValueError)" of
\* process_calendar_request of utils.py.
Fallback(request, ctx, fail, current_time) ==
    The({IF actions = <<>> THEN Done(Raise("IndexError", FALSE, FALSE), ctx)
         ELSE IF Len(actions) = 1 /\ actions[1].action = "UNKNOWN"
         THEN Done(Ret(Pair(TRUE, IF Has(actions[1], "clarification")
                                  THEN actions[1].clarification
                                  ELSE "I'm not sure what you'd like to do")), ctx)
         ELSE ProcessActions(actions, 1, ctx, fail, current_time, <<>>) :
         actions \in {parse_natural_language(request.fallback, DateOf(current_time))}})

\* The outer handler with its return lost: the exception goes on to the caller.
UnexpectedErrorUncaught(result) == result

\* The clause "except Exception" that ends process_calendar_request of utils.py.
UnexpectedError(result) ==
    IF result.tag = "exc" THEN Ret(Pair(FALSE, "Something unexpected happened"))
    ELSE result

\* process_calendar_request of utils.py.
utils_process_calendar_request(request, ctx, fail, current_time) ==
    The({Done(UnexpectedError(handled.result), handled.ctx) :
         handled \in {The({IF body.result.tag = "exc"
                              /\ body.result.kind \in {"JSONDecodeError", "ValueError"}
                           THEN Fallback(request, body.ctx, fail, current_time)
                           ELSE body :
                           body \in {RequestBody(request, ctx, fail, current_time)}})}})

\* detect_message_type: answer is the word the Interpreter returns, "raises"
\* when the call raises.
detect_message_type(answer) ==
    IF answer \in {"calendar_action", "calendar_intent", "general_conversation"}
    THEN answer
    ELSE "general_conversation"

\* handle_calendar_intent
handle_calendar_intent(request) ==
    IF request.intent_raises THEN Ret(Pair(FALSE, "I'd be happy to help you"))
    ELSE Ret(Pair(TRUE, "response"))

\* handle_general_conversation: emotion is the word the Interpreter returns,
\* "raises" when the call raises.  For 'sad' and 'stressed' the inner try
\* returns a True pair whether its call of handle_calendar_action succeeds or
\* raises (calendar_service is no name of the function).
handle_general_conversation(request) ==
    IF request.emotion = "raises"
    THEN Ret(Pair(FALSE, "I'm having trouble processing your message"))
    ELSE IF request.emotion \in {"sad", "stressed"}
    THEN Ret(Pair(TRUE, "Would you like me to schedule a relaxing activity"))
    ELSE IF request.chat_raises
    THEN Ret(Pair(FALSE, "I'm having trouble processing your message"))
    ELSE Ret(Pair(TRUE, "response"))

\* The list parse_natural_language of utils_emot.py returns from its outer
\* except clause.
EmotUnknownEvents ==
    << Descriptor({"action", "clarification"}, "UNKNOWN", NoText, NoText, NoText, "",
                  NoDate, NoTime, None, None, <<"e">>) >>

\* One turn of the loop "for event in events" that validates: "skip" for a
\* continue, "append" for validated_events.append, "abort" when the body
\* raises anything but InvalidInputError.  A string element has none of the
\* keys and is skipped.
EventStep(a, today) ==
    LET event == IF Has(a.d, "action") THEN a.d
                 ELSE [a.d EXCEPT !.keys = @ \cup {"action"}, !.action = "CREATE"]
        v == validate_event_details(event, today)
    IN IF a.kind # "object" THEN [do |-> "skip", val |-> a.d]
       ELSE IF ~({"title", "time", "duration"} \subseteq a.d.keys)
       THEN [do |-> "skip", val |-> a.d]
       ELSE IF v.tag = "ret" THEN [do |-> "append", val |-> v.val]
       ELSE IF v.kind = "InvalidInputError" THEN [do |-> "skip", val |-> a.d]
       ELSE [do |-> "abort", val |-> a.d]

RECURSIVE ValidateEvents(_, _, _, _)
ValidateEvents(items, i, validated_events, today) ==
    IF i > Len(items) THEN [do |-> "return", val |-> validated_events]
    ELSE The({IF step.do = "abort" THEN [do |-> "abort", val |-> <<>>]
              ELSE ValidateEvents(items, i + 1,
                       IF step.do = "append" THEN Append(validated_events, step.val)
                       ELSE validated_events,
                       today) :
              step \in {EventStep(items[i], today)}})

\* parse_natural_language of utils_emot.py: the list it returns.  The loop
\* that rewrites relative dates and times leaves the values of the model as
\* validate_event_details standardizes them.
emot_parse_natural_language(response, today) ==
    IF response.form # "array" THEN EmotUnknownEvents
    ELSE The({IF loop.do = "abort" THEN EmotUnknownEvents ELSE loop.val :
              loop \in {ValidateEvents(response.items, 1, <<>>, today)}})

\* One turn of the loop "for event in events" of process_calendar_request of
\* utils_emot.py: the responses after it.  The except clause of the loop takes
\* the exceptions of the call, of the unpacking of None and of
\* start_time.strftime of a result without start time; nothing is appended
\* for an action that is no CREATE.
EventResponses(responses, event, result) ==
    IF result.tag = "exc" THEN Append(responses, "Failed to schedule")
    ELSE IF result.val.shape # "four" THEN Append(responses, "Failed to schedule")
    ELSE IF event.action # "CREATE" THEN responses
    ELSE IF result.val.start_time = None THEN Append(responses, "Failed to schedule")
    ELSE Append(responses, "Scheduled")

RECURSIVE ProcessEvents(_, _, _, _, _, _, _)
ProcessEvents(events, i, current_time, slots, ctx, fail, responses) ==
    IF i > Len(events) THEN Outcome(Ret(Pair(TRUE, responses)), slots, ctx)
    ELSE The({ProcessEvents(events, i + 1, current_time, r.time_slots, r.ctx, fail,
                                EventResponses(responses, events[i], r.result)) :
        r \in {emot_handle_calendar_action(events[i], current_time, slots, ctx, fail)}})

\* A request to process_calendar_request of utils_emot.py: the Interpreter's
\* answers to detect_message_type, to the emotion prompt and to
\* parse_natural_language, and whether its other calls raise.
EmotRequest(answer, emotion, chat_raises, intent_raises, parsed) ==
    [module |-> "utils_emot", answer |-> answer, emotion |-> emotion,
     chat_raises |-> chat_raises, intent_raises |-> intent_raises,
     parsed |-> parsed]

\* process_calendar_request of utils_emot.py.
emot_process_calendar_request(request, current_time, slots, ctx, fail) ==
    LET message_type == detect_message_type(request.answer)
        Processed(processed) ==
            IF processed.result.tag = "exc"
            THEN Outcome(handle_calendar_intent(request), processed.time_slots,
                         processed.ctx)
            ELSE processed
    IN IF message_type = "general_conversation"
       THEN Outcome(handle_general_conversation(request), slots, ctx)
       ELSE IF message_type = "calendar_intent"
       THEN Outcome(handle_calendar_intent(request), slots, ctx)
       ELSE The({IF events = <<>> \/ (Len(events) = 1 /\ events[1].action = "UNKNOWN")
                 THEN Outcome(handle_calendar_intent(request), slots, ctx)
                 ELSE The({Processed(processed) :
                           processed \in {ProcessEvents(events, 1, current_time, slots,
                                                        ctx, fail, <<>>)}}) :
                 events \in {emot_parse_natural_language(request.parsed,
                                                         DateOf(current_time))}})

\* ------------------------------------------------- the Orchestrator alone
\* The CalendarStore the requests are made against.
ReqStores ==
    {Numbered(events) :
        events \in {<<>>, <<DentistTuesdaySix>>,
                    <<DentistTuesdaySix, ZuluEvent(TRUE, Dentist, TuesdaySix)>>,
                    <<OffsetEvent(TRUE, Dentist, 14 * 60), DentistTuesdaySix>>,
                    <<OffsetEvent(FALSE, NoText, TuesdaySix)>>}}

\* The 'event_details' of the Interpreter's answer to the first prompt.
ReqDetails ==
    {ExecD(keys, "", Dentist, dentist, "TUE", time) :
        keys \in {{}, {"title", "day", "time"}, {"title", "time", "recurring"},
                  {"original_title"}, {"original_title", "day"},
                  {"original_title", "day", "time"}, {"day"}, {"day", "time"}},
        time \in {SixPm, GarbageTime}}

NoDetails == ExecD({}, "", NoText, NoText, "", NoTime)

\* The answers to the first prompt.
Replies ==
    {Reply(form, FALSE, FALSE, "", "missing", NoDetails) :
        form \in {"raises", "nobrace", "badjson"}}
    \cup {Reply("json", TRUE, response, "", "missing", NoDetails) :
            response \in BOOLEAN}
    \cup {Reply("json", FALSE, response, action, details, NoDetails) :
            response \in BOOLEAN,
            action \in {"", "UNKNOWN", "CREATE", "DELETE", "EDIT", "VIEW"},
            details \in {"missing", "text"}}
    \cup {Reply("json", FALSE, TRUE, action, IF d.keys = {} THEN "empty" ELSE "object", d) :
            action \in {"CREATE", "DELETE", "EDIT", "VIEW"}, d \in ReqDetails}

\* The elements of the arrays the Interpreter answers parse_natural_language
\* with.
ReqElements ==
    { NonObject,
      Object(CreateD({"action", "title", "day", "time"}, Dentist, "TUE", TenAm)),
      Object(TargetD({"action", "original_title", "day"}, "DELETE", dentist, "TUE", NoTime)),
      Object(TargetD({"action", "original_title", "day", "time"}, "EDIT", dentist, "TUE",
                     SixPm)),
      Object(TargetD({"action", "day"}, "VIEW", NoText, "TUE", NoTime)),
      Object(TargetD({"action"}, "UNKNOWN", NoText, "", NoTime)) }

EmotD(keys, action, time) ==
    Descriptor(keys, IF "action" \in keys THEN action ELSE "", Dentist, dentist, NoText,
               IF "day" \in keys THEN "TUE" ELSE "", NoDate, time, 2 * Step, None, NoText)

EmotElements ==
    { NonObject,
      Object(EmotD({"title", "time", "duration"}, "", TenAm)),
      Object(EmotD({"title", "time", "duration", "recurring"}, "", TenAm)),
      Object(EmotD({"title", "time"}, "", TenAm)),
      Object(EmotD({"action", "title", "time", "duration"}, "CREATE", GarbageTime)),
      Object(EmotD({"action", "title", "time", "duration", "original_title", "day"},
                   "DELETE", SixPm)),
      Object(EmotD({"action", "title", "time", "duration", "day"}, "VIEW", SixPm)) }

ArraysOf(elements, n) == UNION {[1..k -> elements] : k \in 0..n}

NoArray == Response("array", <<>>)

\* The requests: every answer to the first prompt with an empty fallback
\* array, and the answers that reach the fallback with every fallback answer.
Requests ==
    {Request(mood, reply, NoArray) : mood \in {"negative", "neutral"}, reply \in Replies}
    \cup {Request("neutral", reply, Response(form, <<>>)) :
            reply \in Replies, form \in {"raises", "noarray", "badjson"}}
    \cup {Request("neutral", reply, Response("array", items)) :
            reply \in {Reply(form, FALSE, FALSE, "", "missing", NoDetails) :
                          form \in {"nobrace", "badjson"}}
                      \cup {Reply("json", FALSE, TRUE, "EDIT", "object",
                                  ExecD({"original_title", "day", "time"}, "", Dentist,
                                        dentist, "TUE", SixPm))},
            items \in ArraysOf(ReqElements, MaxActions)}

EmotRequests ==
    {EmotRequest(answer, emotion, chat_raises, intent_raises, NoArray) :
        answer \in {"general_conversation", "calendar_intent", "maybe", "raises"},
        emotion \in {"sad", "neutral", "raises"},
        chat_raises \in BOOLEAN, intent_raises \in BOOLEAN}
    \cup {EmotRequest("calendar_action", "neutral", FALSE, intent_raises, parsed) :
            intent_raises \in BOOLEAN,
            parsed \in {Response(form, <<>>) : form \in {"raises", "noarray", "badjson"}}
                       \cup {Response("array", items) :
                                items \in ArraysOf(EmotElements, MaxActions)}}

InitReq ==
    /\ now = Base
    /\ time_slots = EmptyDict
    /\ store \in ReqStores
    /\ op \in {[name |-> "call", request |-> r, fail |-> f] :
                  r \in Requests \cup EmotRequests, f \in Failures}

\* A call of process_calendar_request of utils.py.
ProcessCalendarRequest ==
    /\ op.name = "call"
    /\ op.request.module = "utils"
    /\ \E r \in {utils_process_calendar_request(op.request, Ctx(store, <<>>), op.fail,
                                                now)} :
          /\ store' = r.ctx.events
          /\ op' = [name |-> "process_calendar_request", request |-> op.request,
                    fail |-> op.fail, before |-> store, ret |-> r.result,
                    calls |-> r.ctx.calls]
    /\ UNCHANGED <<now, time_slots>>

\* A call of process_calendar_request of utils_emot.py.
EmotProcessCalendarRequest ==
    /\ op.name = "call"
    /\ op.request.module = "utils_emot"
    /\ \E r \in {emot_process_calendar_request(op.request, now, time_slots,
                                               Ctx(store, <<>>), op.fail)} :
          /\ store' = r.ctx.events
          /\ time_slots' = r.time_slots
          /\ op' = [name |-> "emot.process_calendar_request", request |-> op.request,
                    fail |-> op.fail, before |-> store, ret |-> r.result,
                    calls |-> r.ctx.calls]
    /\ UNCHANGED now

NextReq == ProcessCalendarRequest \/ EmotProcessCalendarRequest

SpecReq == InitReq /\ [][NextReq]_vars

\* C4: process_calendar_request never raises and always returns a
\* (success, message) pair, whatever the Interpreter answers and whatever the
\* CalendarStore does.
C4_AlwaysAPair ==
    op.name \in {"process_calendar_request", "emot.process_calendar_request"} =>
        /\ op.ret.tag = "ret"
        /\ op.ret.val.shape = "pair"
        /\ op.ret.val.success \in BOOLEAN

\* Malformed JSON from the Interpreter, then an empty action list: the
\* IndexError of actions[0] is turned into a (False, message) pair.
C4_Witness ==
    /\ op.name = "process_calendar_request"
    /\ op.request.reply.form = "badjson"
    /\ op.request.fallback = NoArray
    /\ op.ret = Ret(Pair(FALSE, "Something unexpected happened"))

\* The calls that change the CalendarStore.
Mutations(calls) == SelectSeq(calls, LAMBDA c : c.call \in {"insert", "update", "delete"})

\* C24: when the body of process_calendar_request of utils.py, before its
\* fallback, has issued an insert, update or delete, the whole call issues no
\* further one: the action is not executed again by the fallback.
C24_NoRetry ==
    op.name = "process_calendar_request" =>
        \A body \in {RequestBody(op.request, Ctx(op.before, <<>>), op.fail, now)} :
            Mutations(body.ctx.calls) # <<>> =>
                Mutations(op.calls) = Mutations(body.ctx.calls)

\* The event the DELETE branch of process_calendar_request verifies: the
\* exact match among the events of the requested day, NoneValue when the
\* request does not get that far.
Verified ==
    LET reply == op.request.reply
        event_details == [reply.event_details EXCEPT !.keys = @ \cup {"action"},
                                                     !.action = reply.action]
        user_time == standardize_time_for_comparison(event_details.time)
    IN IF /\ op.request.module = "utils"
          /\ op.request.mood # "negative"
          /\ reply.form = "json"
          /\ reply.details = "object"
          /\ reply.action = "DELETE"
          /\ {"original_title", "time"} \subseteq event_details.keys
          /\ HasAnyOf(event_details, {"day", "date"})
          /\ user_time.tag = "ret"
       THEN The({IF got.result.tag = "exc" THEN NoneValue
                 ELSE The({IF exact_match \in {0, None} THEN NoneValue
                           ELSE got.result.val[exact_match] :
                           exact_match \in {ExactMatch(got.result.val, 1, event_details,
                                                       user_time.val)}}) :
                 got \in {get_events_for_day(event_details, Ctx(op.before, <<>>),
                                             op.fail, now)}})
       ELSE NoneValue

\* C28: when a DELETE request with title, day or date and time has been
\* verified against the events of that day (exact title, time within the
\* tolerance), the event then deleted from the CalendarStore is the verified
\* event, never another event of the week with the same title.
C28_DeletesVerifiedEvent ==
    (op.name = "process_calendar_request" /\ Verified # NoneValue) =>
        \A i \in 1..Len(op.calls) :
            op.calls[i].call = "delete" => op.calls[i].id = Verified.id

\* ------------------------------------------------- single CREATE calls
\* The Slot Manager and the CalendarStore after a session in which one event
\* was made for Monday 10:00 to 11:00.
BusySlots == SetSlots(EmptyDict, 0, add_time_slot(<<>>, 10 * 60, 11 * 60, 1))
BusyStore == Insert(<<>>, Standup, 10 * 60, 11 * 60)

\* The CREATE descriptors of the calls: a duration of 30 or 60 minutes, and a
\* travel time of 0 or 30 minutes when the key is there.
CreateCalls ==
    {EventDetails(keys, IF "day" \in keys THEN day ELSE "MON",
                  IF "date" \in keys THEN date ELSE DateStr("iso", 0), time, duration,
                  IF "travel_time" \in keys THEN travel_time ELSE 0, None, None) :
        keys \in CreateKeys,
        day \in {"MON", "WED"},
        date \in {DateStr("iso", 0), DateStr("iso", 1)},
        time \in {NineAm, TenAm, TenPm, BareTen},
        duration \in {Step, 2 * Step},
        travel_time \in {0, Step}}

\* The insert call that fails, if any, and how.
CreateFailures ==
    {NoFailure} \cup {[at |-> n, error |-> e] : n \in 1..2, e \in StoreErrors}

InitCreate ==
    /\ now \in Clock
    /\ \E busy \in BOOLEAN :
          /\ time_slots = IF busy THEN BusySlots ELSE EmptyDict
          /\ store = IF busy THEN BusyStore ELSE <<>>
    /\ op \in {[name |-> "call", arg |-> d, fail |-> f] :
                  d \in CreateCalls, f \in CreateFailures}

\* A CREATE through handle_calendar_action of utils_emot.py.
EmotCreate ==
    /\ op.name = "call"
    /\ \E r \in {emot_handle_calendar_action(op.arg, now, time_slots,
                                             Ctx(store, <<>>), op.fail)} :
          /\ time_slots' = r.time_slots
          /\ store' = r.ctx.events
          /\ op' = [name |-> "emot.create", arg |-> op.arg, fail |-> op.fail,
                    before |-> store, slots_before |-> time_slots,
                    ret |-> r.result, calls |-> r.ctx.calls]
    /\ UNCHANGED now

\* A CREATE through handle_calendar_action of utils.py.
UtilsCreate ==
    /\ op.name = "call"
    /\ \E r \in {utils_handle_calendar_action(op.arg, Ctx(store, <<>>), op.fail, now)} :
          /\ store' = r.ctx.events
          /\ op' = [name |-> "utils.create", arg |-> op.arg, fail |-> op.fail,
                    before |-> store, slots_before |-> time_slots,
                    ret |-> r.result, calls |-> r.ctx.calls]
    /\ UNCHANGED <<now, time_slots>>

NextCreate == EmotCreate \/ UtilsCreate

SpecCreate == InitCreate /\ [][NextCreate]_vars

\* A CREATE that is not recurring has inserted one block.
InsertedOne ==
    /\ op.name \in {"emot.create", "utils.create"}
    /\ "recurring" \notin op.arg.keys
    /\ Len(store) = Len(op.before) + 1

\* The block the CREATE inserted, as instants on the user's clock.
BlockStart == LocalInstant(store[Len(store)].start)
BlockEnd == LocalInstant(store[Len(store)].end)

\* The nominal start of the CREATE: the requested time on the resolved date.
NominalStart ==
    IF op.name = "emot.create" THEN PreferredStart(op.arg, now)
    ELSE UtilsNominalStart(op.arg, now)

\* The start the appointment is given: the nominal start in utils.py, the
\* start the Slot Manager returns for it in utils_emot.py.
ScheduledStart ==
    IF op.name = "emot.create" THEN SlotFound(op.arg, now, op.slots_before)
    ELSE UtilsNominalStart(op.arg, now)

\* C12 as stated: the inserted block starts at the nominal start minus the
\* travel time and ends at the nominal start plus the duration.
C12_BlockAroundNominal ==
    InsertedOne =>
        /\ BlockStart = NominalStart - TravelTimeOf(op.arg)
        /\ BlockEnd = NominalStart + DurationOf(op.arg)

\* C12: CREATE with travel time T and duration D inserts a block that starts
\* at S - T and ends at S + D, S being the nominal start in utils.py and the
\* start the Slot Manager returns for the nominal start in utils_emot.py; the
\* block is T + D long and the appointment begins at block start + T.
C12_BlockAroundScheduled ==
    InsertedOne =>
        /\ BlockStart = ScheduledStart - TravelTimeOf(op.arg)
        /\ BlockEnd = ScheduledStart + DurationOf(op.arg)
        /\ BlockEnd - BlockStart = TravelTimeOf(op.arg) + DurationOf(op.arg)
        /\ BlockStart + TravelTimeOf(op.arg) = ScheduledStart

C12_Witness ==
    /\ InsertedOne
    /\ op.name = "emot.create"
    /\ "travel_time" \in op.arg.keys
    /\ op.arg.travel_time = Step
    /\ op.arg.duration = 2 * Step
    /\ ScheduledStart # NominalStart
    /\ BlockStart = ScheduledStart - Step
    /\ BlockEnd = ScheduledStart + 2 * Step

\* The nominal start as the statement resolves it: with a day and no date,
\* the requested time on the next such weekday from today on, a week later
\* when that instant is past; otherwise the requested time on the date (or
\* today), a day later when that instant is past.
ExpectedNominal ==
    LET today == DateOf(now)
        clock == ParseClock(op.arg.time).val
        minute == clock[1] * 60 + clock[2]
        next_day == today + ((DayNumber(op.arg.day) - WeekdayOf(today)) % 7)
        on_day == next_day * MinutesPerDay + minute
        date == IF "date" \in op.arg.keys THEN op.arg.date.d ELSE today
        on_date == date * MinutesPerDay + minute
    IN IF "day" \in op.arg.keys
       THEN IF on_day < now THEN on_day + 7 * MinutesPerDay ELSE on_day
       ELSE IF on_date < now THEN on_date + MinutesPerDay ELSE on_date

\* A single CREATE with a time schedule_event can read and with a day or a
\* date, not both.
ResolvedCreate ==
    /\ op.name \in {"emot.create", "utils.create"}
    /\ "recurring" \notin op.arg.keys
    /\ ParseClock(op.arg.time).tag = "ret"
    /\ ~({"day", "date"} \subseteq op.arg.keys)

\* C22: the nominal start of a CREATE is the requested time on the resolved
\* day, moved a week (day given) or a day (no day) later exactly when it is
\* past; the nominal start of an inserted event is not before now.
C22_NominalStartResolved ==
    ResolvedCreate =>
        /\ NominalStart = ExpectedNominal
        /\ (InsertedOne => NominalStart >= now)

\* The recurring CREATE recorded in op, the insert calls it issued and the
\* events it inserted.
RecurringCreate ==
    /\ op.name \in {"emot.create", "utils.create"}
    /\ "recurring" \in op.arg.keys
InsertCalls == {i \in 1..Len(op.calls) : op.calls[i].call = "insert"}
InsertedEvents == {i \in 1..Len(store) : i > Len(op.before)}
DayOfEvent(i) == DateOf(LocalInstant(store[i].start))

\* The call reports success: a True pair, or a 4-tuple with a start time.
ReportsSuccess ==
    /\ op.ret.tag = "ret"
    /\ IF op.ret.val.shape = "pair" THEN op.ret.val.success
       ELSE op.ret.val.shape = "four" /\ op.ret.val.start_time # None

\* The insert calls the same CREATE issues when no CalendarStore call fails.
CallsWithoutFailure ==
    IF op.name = "emot.create"
    THEN emot_handle_calendar_action(op.arg, now, op.slots_before,
                                     Ctx(op.before, <<>>), NoFailure).ctx.calls
    ELSE utils_handle_calendar_action(op.arg, Ctx(op.before, <<>>), NoFailure,
                                      now).ctx.calls

\* C13: a recurring CREATE issues at most 7 inserts, at most one for each day
\* of [today, today + 6] and only on days with the weekday of the descriptor;
\* a failed instance does not stop the others, and the call reports success
\* exactly when at least one instance was inserted.
C13_RecurringInstances ==
    RecurringCreate =>
        /\ Cardinality(InsertCalls) <= 7
        /\ \A i \in InsertedEvents :
               /\ DayOfEvent(i) \in DateOf(now)..(DateOf(now) + 6)
               /\ ("day" \in op.arg.keys =>
                      WeekdayOf(DayOfEvent(i)) = DayNumber(op.arg.day))
               /\ \A j \in InsertedEvents : DayOfEvent(j) = DayOfEvent(i) => j = i
        /\ Len(op.calls) = Len(CallsWithoutFailure)
        /\ (ReportsSuccess <=> InsertedEvents # {})

\* ------------------------------------------------- single VIEW calls
\* The clock of the VIEW calls: Monday 09:30, Monday 18:30, Thursday 18:00.
ViewClock == {Base + Step, 18 * 60 + 30, 3 * MinutesPerDay + 18 * 60}

\* Events at 20:00 of Monday, Wednesday and Thursday of this week and of
\* Monday and Thursday of the next.
ViewPool ==
    <<OffsetEvent(TRUE, Dentist, 20 * 60),
      OffsetEvent(TRUE, Standup, 2 * MinutesPerDay + 20 * 60),
      OffsetEvent(TRUE, Dense, 3 * MinutesPerDay + 20 * 60),
      OffsetEvent(TRUE, Dentist, 7 * MinutesPerDay + 20 * 60),
      OffsetEvent(TRUE, Standup, 10 * MinutesPerDay + 20 * 60)>>

ViewStores ==
    {Numbered(SelectSeq(ViewPool, LAMBDA e : DateOf(LocalInstant(e.start)) \in days)) :
        days \in {{}, {0, 7}, {3, 10}, {0, 2, 3, 7, 10}}}

\* The VIEW descriptors: a day, a day and a date, neither.
ViewInputs ==
    {Descriptor(keys, "VIEW", NoText, NoText, NoText,
                IF "day" \in keys THEN day ELSE "",
                IF "date" \in keys THEN DateStr("iso", 2) ELSE NoDate,
                NoTime, None, None, NoText) :
        keys \in {{"action", "day"}, {"action", "day", "date"}, {"action"}},
        day \in {"MON", "WED", "THU"}}

InitView ==
    /\ now \in ViewClock
    /\ time_slots = EmptyDict
    /\ store \in ViewStores
    /\ op \in {[name |-> "call", arg |-> d, fail |-> f] :
                  d \in ViewInputs,
                  f \in {NoFailure} \cup {[at |-> 1, error |-> e] : e \in StoreErrors}}

\* get_events_for_day of utils.py, called as the VIEW branches call it.
GetEventsForDay ==
    /\ op.name = "call"
    /\ \E r \in {get_events_for_day(op.arg, Ctx(store, <<>>), op.fail, now)} :
          op' = [name |-> "get_events_for_day", arg |-> op.arg, fail |-> op.fail,
                 ret |-> r.result, calls |-> r.ctx.calls]
    /\ UNCHANGED <<now, time_slots, store>>

\* get_events_for_day of utils_emot.py.
EmotGetEventsForDay ==
    /\ op.name = "call"
    /\ \E r \in {emot_get_events_for_day(op.arg, Ctx(store, <<>>), op.fail, now)} :
          op' = [name |-> "emot.get_events_for_day", arg |-> op.arg,
                 fail |-> op.fail, ret |-> r.result, calls |-> r.ctx.calls]
    /\ UNCHANGED <<now, time_slots, store>>

NextView == GetEventsForDay \/ EmotGetEventsForDay

SpecView == InitView /\ [][NextView]_vars

\* The date a VIEW with a day is to resolve to: the next date on or after
\* today with that weekday, the one a week ahead when the weekday is today's
\* and it is 18:00 or later.
ResolvedViewDate ==
    LET today == DateOf(now)
        days_ahead == (DayNumber(op.arg.day) - WeekdayOf(today)) % 7
    IN IF days_ahead = 0 /\ TimeOfDay(now) \div 60 >= 18 THEN today + 7
       ELSE today + days_ahead

\* C14: VIEW with a day lists the events of the next date on or after today
\* with that weekday, and of the date 7 days ahead when the weekday is
\* today's and it is 18:00 or later; that date has the weekday asked for and
\* lies in [today, today + 7].
C14_ViewResolvesDay ==
    (/\ op.name \in {"get_events_for_day", "emot.get_events_for_day"}
     /\ "day" \in op.arg.keys
     /\ "date" \notin op.arg.keys
     /\ op.fail = NoFailure) =>
        /\ op.ret.tag = "ret"
        /\ op.ret.val = EventsOn(store, ResolvedViewDate)
        /\ WeekdayOf(ResolvedViewDate) = DayNumber(op.arg.day)
        /\ ResolvedViewDate \in DateOf(now)..(DateOf(now) + 7)

\* ----------------------------------------- standardize_time_format alone
\* The time strings standardize_time_format is called with: every spelling
\* of the hours and minutes below, and a string that is no time.
TimeHours == {0, 1, 9, 11, 12, 13, 23, 24}
TimeMinutes == {None, 0, 59, 60}
TimePeriods == {"", "AM", "PM", "A", "P"}

\* A string is written once: whitespace stands before a period only, and an
\* hour of two digits is padded.
Spelled(t) == (t.space => t.period # "") /\ (t.hour >= 10 => t.padded)

TimeInputs ==
    {t \in {[TimeStr(hour, minute, colon, space, period) EXCEPT !.padded = padded] :
                hour \in TimeHours, minute \in TimeMinutes, colon \in BOOLEAN,
                space \in BOOLEAN, period \in TimePeriods, padded \in BOOLEAN} :
        Spelled(t)}
    \cup {GarbageTime}

InitTime ==
    /\ now = Base
    /\ time_slots = EmptyDict
    /\ store = <<>>
    /\ op \in {Call(t) : t \in TimeInputs}

\* The call standardize_time_format(time_str).
StandardizeTime ==
    /\ op.name = "call"
    /\ op' = [name |-> "standardize_time_format", arg |-> op.arg,
              ret |-> standardize_time_format(op.arg)]
    /\ UNCHANGED <<now, time_slots, store>>

\* The call standardize_time_format(result) on the result of a call.
StandardizeTimeAgain ==
    /\ op.name = "standardize_time_format"
    /\ op.ret.tag = "ret"
    /\ op' = [name |-> "standardize_time_format again", arg |-> op.ret.val,
              first |-> op.arg, ret |-> standardize_time_format(op.ret.val)]
    /\ UNCHANGED <<now, time_slots, store>>

NextTime == StandardizeTime \/ StandardizeTimeAgain

SpecTime == InitTime /\ [][NextTime]_vars

\* 'HH:MM AM' or 'HH:MM PM' with HH in 01..12 and MM in 00..59.
CanonicalTime(t) ==
    /\ t.form = "clock" /\ t.padded /\ t.colon /\ t.space
    /\ t.hour \in 1..12
    /\ t.minute \in 0..59
    /\ t.period \in {"AM", "PM"}

\* C18: every result of standardize_time_format has the canonical form, and
\* standardize_time_format of a result is that result.
C18_TimeIdempotent ==
    /\ (op.name = "standardize_time_format" /\ op.ret.tag = "ret") =>
           CanonicalTime(op.ret.val)
    /\ op.name = "standardize_time_format again" => op.ret = Ret(op.arg)

C18_Witness ==
    /\ op.name = "standardize_time_format again"
    /\ op.first = TimeStr(23, 59, FALSE, FALSE, "")
    /\ op.arg = FormatTime(11, 59, "PM")
    /\ op.ret = Ret(op.arg)

\* A 24-hour input: hour and minute digits and no period.
Is24Hour(t) == t.form = "clock" /\ t.minute # None /\ t.period = ""

\* A 12-hour input: an hour, ':MM' or no minutes, and a period.
Is12Hour(t) ==
    /\ t.form = "clock" /\ t.period # ""
    /\ (t.minute # None <=> t.colon)

\* C19: a 24-hour input is accepted exactly when its hour is in 0..23 and its
\* minute in 0..59, a 12-hour input (with a period) exactly when its hour is
\* in 1..12 and its minute, if any, in 0..59; a string that is no time is
\* refused, and every refusal is an InvalidInputError.
C19_TimeRanges ==
    op.name = "standardize_time_format" =>
        /\ (Is24Hour(op.arg) =>
               (op.ret.tag = "ret" <=> op.arg.hour \in 0..23 /\ op.arg.minute \in 0..59))
        /\ (Is12Hour(op.arg) =>
               (op.ret.tag = "ret" <=>
                   op.arg.hour \in 1..12 /\ op.arg.minute \in {None} \cup 0..59))
        /\ (op.arg.form = "garbage" => op.ret.tag = "exc")
        /\ (op.ret.tag = "exc" => op.ret.kind = "InvalidInputError")

\* ----------------------------------------- standardize_date_format alone
\* The proleptic Gregorian calendar of datetime: the number of the day
\* year-month-day, counted from 1970-01-01.
DaysFromCivil(year, month, day) ==
    LET y == IF month <= 2 THEN year - 1 ELSE year
        era == y \div 400
        yoe == y - era * 400
        doy == (153 * (IF month > 2 THEN month - 3 ELSE month + 9) + 2) \div 5 + day - 1
        doe == yoe * 365 + yoe \div 4 - yoe \div 100 + doy
    IN era * 146097 + doe - 719468

\* The year, month and day of the day numbered z from 1970-01-01.
CivilFromDays(z) ==
    LET era == (z + 719468) \div 146097
        doe == (z + 719468) - era * 146097
        yoe == (doe - doe \div 1460 + doe \div 36524 - doe \div 146096) \div 365
        doy == doe - (365 * yoe + yoe \div 4 - yoe \div 100)
        mp == (5 * doy + 2) \div 153
        month == IF mp < 10 THEN mp + 3 ELSE mp - 9
    IN [year |-> yoe + era * 400 + (IF month <= 2 THEN 1 ELSE 0),
        month |-> month,
        day |-> doy - (153 * mp + 2) \div 5 + 1]

\* Day 0 of the model is Monday 2024-06-10.
Epoch == DaysFromCivil(2024, 6, 10)

\* The day number, in the model, of year-month-day, and back.
DayNumberOf(year, month, day) == DaysFromCivil(year, month, day) - Epoch
YearOf(d) == CivilFromDays(d + Epoch).year
MonthOf(d) == CivilFromDays(d + Epoch).month

\* The days of a month of a year.
DaysInMonth(year, month) ==
    IF month = 12 THEN 31
    ELSE DaysFromCivil(year, month + 1, 1) - DaysFromCivil(year, month, 1)

\* A date string of month and day without a year ('06/15', '06-15',
\* 'June 15', '15 Jun').
MonthDay(month, day) == [form |-> "md", d |-> 0, month |-> month, day |-> day]

\* datetime.strptime(date_str, fmt) for a format without %Y succeeds: the
\* month and the day exist in the year 1900 that strptime fills in.
Strptime1900(date_str) ==
    /\ date_str.month \in 1..12
    /\ date_str.day \in 1..DaysInMonth(1900, date_str.month)

\* standardize_date_format of utils_emot.py: the formats without %Y take the
\* year of datetime.now(), or the next one when midnight of that date is
\* before datetime.now() and the month of datetime.now() is after October.
emot_standardize_date_format(date_str, current_time) ==
    IF date_str.form # "md"
    THEN standardize_date_format(date_str, DateOf(current_time))
    ELSE IF ~Strptime1900(date_str) THEN InvalidInputError
    ELSE LET current_year == YearOf(DateOf(current_time))
             this_year == DayNumberOf(current_year, date_str.month, date_str.day)
         IN IF this_year * MinutesPerDay < current_time
               /\ MonthOf(DateOf(current_time)) > 10
            THEN Ret(DateStr("iso", DayNumberOf(current_year + 1, date_str.month,
                                                date_str.day)))
            ELSE Ret(DateStr("iso", this_year))

\* standardize_date_format of utils.py: for the formats without %Y the naive
\* parsed_date.replace(year=current_year) is compared with the aware
\* today = datetime.now(local_tz), which raises TypeError.
utils_standardize_date_format(date_str, current_time) ==
    IF date_str.form # "md"
    THEN standardize_date_format(date_str, DateOf(current_time))
    ELSE IF ~Strptime1900(date_str) THEN InvalidInputError
    ELSE Raise("TypeError", FALSE, FALSE)

\* The instants of the calls: datetime.now() as minutes from day 0.
Instant(year, month, day, minute) ==
    DayNumberOf(year, month, day) * MinutesPerDay + minute

DateClock ==
    {Instant(2024, 6, 10, Base), Instant(2024, 11, 20, 0), Instant(2024, 11, 20, Base),
     Instant(2024, 12, 31, Base), Instant(2023, 11, 20, Base), Instant(2025, 10, 31, Base)}

DateInputs ==
    {MonthDay(month, day) : month \in {0, 1, 2, 6, 11, 12, 13},
                            day \in {0, 1, 10, 15, 20, 28, 29, 30, 31, 32}}
    \cup {GarbageDate, DateStr("rel", 1), DateStr("iso", DayNumberOf(2024, 6, 15))}

InitDate ==
    /\ now \in DateClock
    /\ time_slots = EmptyDict
    /\ store = <<>>
    /\ op \in {Call(date_str) : date_str \in DateInputs}

\* The call standardize_date_format(date_str) of utils.py.
UtilsStandardizeDate ==
    /\ op.name = "call"
    /\ op' = [name |-> "utils.standardize_date_format", arg |-> op.arg,
              ret |-> utils_standardize_date_format(op.arg, now)]
    /\ UNCHANGED <<now, time_slots, store>>

\* The call standardize_date_format(date_str) of utils_emot.py.
EmotStandardizeDate ==
    /\ op.name = "call"
    /\ op' = [name |-> "emot.standardize_date_format", arg |-> op.arg,
              ret |-> emot_standardize_date_format(op.arg, now)]
    /\ UNCHANGED <<now, time_slots, store>>

NextDate == UtilsStandardizeDate \/ EmotStandardizeDate

SpecDate == InitDate /\ [][NextDate]_vars

Standardized(names) == op.name \in names

DateFunctions == {"utils.standardize_date_format", "emot.standardize_date_format"}

\* The year the statement gives a month and a day without a year: the current
\* year, or the next one when the date of the current year is before today
\* and the current month is after October.
ExpectedYear(date_str) ==
    IF DayNumberOf(YearOf(DateOf(now)), date_str.month, date_str.day) < DateOf(now)
       /\ MonthOf(DateOf(now)) > 10
    THEN YearOf(DateOf(now)) + 1
    ELSE YearOf(DateOf(now))

\* C20: standardize_date_format returns, for a month and a day without a year
\* that exist in every year, the date of that month and day in the current
\* year, or in the next year when the date is already past and the current
\* month is after October; a string that matches no format raises
\* InvalidInputError, and no error of another kind leaves the function.
C20_YearlessDates ==
    Standardized(DateFunctions) =>
        /\ (op.arg.form = "md" /\ Strptime1900(op.arg)) =>
               op.ret = Ret(DateStr("iso", DayNumberOf(ExpectedYear(op.arg),
                                                       op.arg.month, op.arg.day)))
        /\ (op.arg.form = "garbage" =>
               op.ret.tag = "exc" /\ op.ret.kind = "InvalidInputError")
        /\ (op.ret.tag = "exc" => op.ret.kind = "InvalidInputError")

\* ------------------------------------------------- single EDIT calls
\* The event to edit: 'Dent' on Tuesday at 18:00 or 18:10 or on the Tuesday
\* after at 18:00, an hour long, returned with suffix Z or with the user's
\* offset, with or without a description and a location.
Noted(event, noted) ==
    [event EXCEPT !.description = IF noted THEN <<"n">> ELSE <<>>,
                  !.location = IF noted THEN <<"r">> ELSE <<>>]

EditPool ==
    {Noted(event, noted) :
        event \in {ZuluEvent(TRUE, Dentist, t) :
                      t \in {TuesdaySix, TuesdaySix + 10, TuesdaySix + 7 * MinutesPerDay}}
                  \cup {OffsetEvent(TRUE, Dentist, TuesdaySix),
                        OffsetEvent(TRUE, Dentist, TuesdaySix + 4 * 60)},
        noted \in BOOLEAN}

EditStores ==
    {Numbered(<<event>>) : event \in EditPool}
    \cup {Numbered(<<ZuluEvent(TRUE, Standup, TuesdayTwo), event>>) : event \in EditPool}

\* The EDIT descriptors: 'dent' with any of the other keys, and at least one
\* of day, date and time.
EditD(keys) ==
    [Descriptor({"action", "original_title"} \cup keys, "EDIT", NoText, dentist,
                IF "new_title" \in keys THEN Standup ELSE NoText,
                IF "day" \in keys THEN "TUE" ELSE "",
                IF "date" \in keys THEN DateStr("iso", 1) ELSE NoDate,
                IF "time" \in keys THEN SixPm ELSE NoTime,
                IF "duration" \in keys THEN 3 * Step ELSE None, None, NoText)
        EXCEPT !.description = IF "description" \in keys THEN <<"m">> ELSE NoText,
               !.location = IF "location" \in keys THEN <<"s">> ELSE NoText]

EditInputs ==
    {EditD(keys) :
        keys \in {k \in SUBSET {"new_title", "description", "location", "duration",
                                "day", "date", "time"} :
                     k \cap {"day", "date", "time"} # {}}}

InitEdit ==
    /\ now = Base
    /\ time_slots = EmptyDict
    /\ store \in EditStores
    /\ op \in {[name |-> "call", arg |-> d, fail |-> NoFailure] : d \in EditInputs}

NextEdit == EditEvent

SpecEdit == InitEdit /\ [][NextEdit]_vars

\* edit_event has sent an update; Original is the event it was sent for, as
\* the CalendarStore held it, and Edited the event after the update.
UpdateSent == op.name = "edit_event" /\ CallsOf({"update"}) # {}
UpdatedId == op.calls[CHOOSE i \in CallsOf({"update"}) : TRUE].id
Original == EventById(op.before, UpdatedId)
Edited == EventById(store, UpdatedId)

\* The length of an event in minutes.
LengthOf(event) == LocalInstant(event.end) - LocalInstant(event.start)

\* C25: the update edit_event sends keeps what the descriptor does not give:
\* the summary is new_title or the original summary, the description and the
\* location are the given or the original ones, and the length is the
\* original length unless a duration is given.
C25_AbsentFieldsKept ==
    UpdateSent =>
        /\ Edited.summary = IF "new_title" \in op.arg.keys THEN op.arg.new_title
                            ELSE Original.summary
        /\ Edited.description = IF "description" \in op.arg.keys THEN op.arg.description
                                ELSE Original.description
        /\ Edited.location = IF "location" \in op.arg.keys THEN op.arg.location
                             ELSE Original.location
        /\ ("duration" \notin op.arg.keys => LengthOf(Edited) = LengthOf(Original))
        /\ ("duration" \in op.arg.keys => LengthOf(Edited) = op.arg.duration)

C25_Witness ==
    /\ UpdateSent
    /\ op.arg.keys = {"action", "original_title", "time", "description"}
    /\ Original.summary = Dentist /\ Edited.summary = Dentist
    /\ Original.description = <<"n">> /\ Edited.description = <<"m">>
    /\ Edited.location = <<"r">>
    /\ LengthOf(Edited) = 60

\* The day, date and time of the descriptor identify the event: it starts, on
\* the user's clock, on that weekday, on that date and within the tolerance
\* of that time.
Identifies(d, event) ==
    LET start == LocalInstant(event.start)
    IN /\ ("day" \in d.keys => WeekdayOf(DateOf(start)) = DayNumber(d.day))
       /\ ("date" \in d.keys => DateOf(start) = d.date.d)
       /\ ("time" \in d.keys => Abs(TimeOfDay(start) - MatcherClock(d.time)) <= TimeWindow)

\* C29: an EDIT that gives only new_title besides the day, date and time that
\* identify the matched event sends an update with the start and the end the
\* event had.
C29_OnlyTitleChanged ==
    (/\ UpdateSent
     /\ op.arg.keys \cap {"duration", "description", "location"} = {}
     /\ "new_title" \in op.arg.keys
     /\ Identifies(op.arg, Original)) =>
        /\ LocalInstant(Edited.start) = LocalInstant(Original.start)
        /\ LocalInstant(Edited.end) = LocalInstant(Original.end)

\* ------------------------------------- CREATE: validated, then scheduled
\* The CREATE descriptors the validator is given: a title, and any of the
\* other keys it reads.
AcceptCalls ==
    {EventDetails({"action", "title"} \cup keys,
                  IF "day" \in keys THEN "TUE" ELSE "",
                  IF "date" \in keys THEN DateStr("iso", 1) ELSE NoDate,
                  IF "time" \in keys THEN time ELSE NoTime,
                  IF "duration" \in keys THEN 2 * Step ELSE None,
                  IF "travel_time" \in keys THEN Step ELSE None, None, None) :
        keys \in SUBSET {"time", "day", "date", "duration", "travel_time"},
        time \in {TenAm, SixPm}}

InitAccept ==
    /\ now = Base
    /\ time_slots = EmptyDict
    /\ store = <<>>
    /\ op \in {[name |-> "call", arg |-> d, fail |-> f] :
                  d \in AcceptCalls,
                  f \in {NoFailure} \cup {[at |-> 1, error |-> e] : e \in StoreErrors}}

\* validate_event_details, then schedule_event of utils.py when it accepts.
UtilsValidateSchedule ==
    /\ op.name = "call"
    /\ \E v \in {validate_event_details(op.arg, DateOf(now))} :
          IF v.tag = "exc"
          THEN /\ op' = [name |-> "utils.rejected", arg |-> op.arg, fail |-> op.fail,
                         ret |-> v, calls |-> <<>>]
               /\ UNCHANGED store
          ELSE \E r \in {utils_schedule_event(v.val, Ctx(store, <<>>), op.fail, now)} :
                  /\ store' = r.ctx.events
                  /\ op' = [name |-> "utils.schedule_event", arg |-> v.val,
                            fail |-> op.fail, ret |-> r.result, calls |-> r.ctx.calls]
    /\ UNCHANGED <<now, time_slots>>

\* validate_event_details, then schedule_event of utils_emot.py when it accepts.
EmotValidateSchedule ==
    /\ op.name = "call"
    /\ \E v \in {validate_event_details(op.arg, DateOf(now))} :
          IF v.tag = "exc"
          THEN /\ op' = [name |-> "emot.rejected", arg |-> op.arg, fail |-> op.fail,
                         ret |-> v, calls |-> <<>>]
               /\ UNCHANGED <<store, time_slots>>
          ELSE \E r \in {schedule_event(v.val, now, time_slots, Ctx(store, <<>>),
                                        op.fail)} :
                  /\ store' = r.ctx.events
                  /\ time_slots' = r.time_slots
                  /\ op' = [name |-> "emot.schedule_event", arg |-> v.val,
                            fail |-> op.fail, ret |-> r.result, calls |-> r.ctx.calls]
    /\ UNCHANGED now

NextAccept == UtilsValidateSchedule \/ EmotValidateSchedule

SpecAccept == InitAccept /\ [][NextAccept]_vars

\* C30: every CREATE descriptor validate_event_details accepts can be executed
\* by schedule_event, a descriptor with a day or date but no time included:
\* schedule_event gets as far as the insert call on the CalendarStore, and so
\* either inserts the event or reports what the CalendarStore answered; it
\* does not fail on a field the validator did not require.
C30_AcceptedIsExecutable ==
    op.name \in {"utils.schedule_event", "emot.schedule_event"} =>
        \E i \in 1..Len(op.calls) : op.calls[i].call = "insert"

====
